---- MODULE Spec2Model ----
(***************************************************************************)
(* Medical-shop inventory dashboard: the useDatabase hook (in-memory       *)
(* product, client and sale collections of one browser session), the       *)
(* persistence boundary of lib/supabase.ts and the tables of               *)
(* database-setup.sql.                                                     *)
(*                                                                         *)
(* Money is counted in cents, so decimal(10,2) columns hold integers.      *)
(* A JavaScript read of a field an object does not have yields Undefined,  *)
(* arithmetic on Undefined yields NaN; both are kept apart from every      *)
(* number the model uses.                                                  *)
(***************************************************************************)
EXTENDS Integers, Sequences, FiniteSets, TLC

\* ------------------------------------------------------------- bounds
MaxProducts == 2
MaxClients == 2
MaxSales == 2
MaxItems == 2
MaxQty == 2
MaxOps == 4
MaxFaults == 1

\* ------------------------------------------------------------- values
Undefined == -1000001
NaN == -1000000
Null == -1000002

InitStock == 5
MinStock == 3
CostPrice == 1
Sessions == {1, 2}

NoError == "null"

VARIABLES
    dbProducts,   \* table products: a set of rows
    dbClients,    \* table clients
    dbSales,      \* table sales
    dbSaleItems,  \* table sale_items
    nextId,       \* rows ever inserted, per table (gen_random_uuid never repeats)
    now,          \* the clock behind now() and new Date()
    active,       \* the sessions that exist
    products,     \* useState<Product[]> of each session
    clients,      \* useState<Client[]> of each session
    sales,        \* useState<Sale[]> of each session
    error,        \* useState<string | null> of each session
    rejection,    \* what the promise of each session's latest operation rejected with
    pc,           \* where each session's addSale stands
    call,         \* the locals and closure of each session's addSale
    budget,       \* user operations started, store faults injected, requests refused
    showAddForm,    \* Sales: useState(false), the sale form is open
    selectedClient, \* Sales: useState(''), 0 stands for the empty id
    saleItems,      \* Sales: useState<SaleItem[]>([])
    discount,       \* Sales: useState(0)
    submitted,      \* the saleData handed to onAddSale by the latest submit
    dashboardStats, \* App: useState<DashboardStats>
    timeRange,      \* Analytics: useState('30d')
    analyticsData,  \* Analytics: the useMemo value
    metricsCall     \* the latest metrics computation: what it was given, what came before

\* the state of the pages
pages == <<showAddForm, selectedClient, saleItems, discount, submitted,
           dashboardStats, timeRange, analyticsData, metricsCall>>

vars == <<dbProducts, dbClients, dbSales, dbSaleItems, nextId, now, active,
          products, clients, sales, error, rejection, pc, call, budget, pages>>


\* ------------------------------------------------------------- JavaScript
\* obj.field: Undefined when the object has no such property
Field(obj, f) == IF f \in DOMAIN obj THEN obj[f] ELSE Undefined

IsNumber(v) == v # Undefined /\ v # NaN /\ v # Null

\* a - b and a + b on JavaScript numbers
Minus(a, b) == IF IsNumber(a) /\ IsNumber(b) THEN a - b ELSE NaN
Plus(a, b) == IF IsNumber(a) /\ IsNumber(b) THEN a + b ELSE NaN

\* JSON.stringify of a number in a request body: NaN is written as null
Json(v) == IF v = NaN THEN Null ELSE v

\* array.find(x => x.id === id): the index of the first match, 0 when none
FindIndex(seq, id) ==
    IF \E i \in DOMAIN seq : seq[i].id = id
    THEN CHOOSE i \in DOMAIN seq : seq[i].id = id /\ \A j \in 1..(i - 1) : seq[j].id # id
    ELSE 0

Ids(seq) == {seq[i].id : i \in DOMAIN seq}

RECURSIVE SumOver(_, _)
SumOver(seq, f) == IF seq = <<>> THEN 0 ELSE Head(seq)[f] + SumOver(Tail(seq), f)

\* rows of a table, newest first (.order('created_at', { ascending: false })): a
\* table's ids are handed out in insertion order, so the newest row has the largest id
RECURSIVE OrderDesc(_)
OrderDesc(rows) ==
    IF rows = {} THEN <<>>
    ELSE LET newest == CHOOSE r \in rows : \A o \in rows : o.id <= r.id
         IN <<newest>> \o OrderDesc(rows \ {newest})

\* ------------------------------------------------------------- persistence boundary
TextFields == {"name", "batchNumber"}

ProductColumn ==
    [name |-> "name", batchNumber |-> "batch_number", currentStock |-> "current_stock",
     minStockLevel |-> "min_stock_level", unitPrice |-> "unit_price",
     sellingPrice |-> "selling_price"]

ClientColumn ==
    [name |-> "name", totalPurchases |-> "total_purchases",
     lastPurchaseDate |-> "last_purchase_date"]

\* columns declared NOT NULL that the model writes numbers to
NotNullColumns ==
    {"current_stock", "min_stock_level", "unit_price", "selling_price", "total_purchases",
     "total_amount", "discount", "final_amount", "quantity", "total_price"}

\* the request body of an update: the fields the service copies, under their column names
UpdateData(updates, column) ==
    LET copied == {f \in DOMAIN updates \cap DOMAIN column :
                      IF f \in TextFields THEN updates[f] # "" ELSE updates[f] # Undefined}
    IN [c \in {column[f] : f \in copied} |->
           LET f == CHOOSE g \in copied : column[g] = c
           IN IF f \in TextFields THEN updates[f] ELSE Json(updates[f])]

\* .update(updateData).eq('id', id).select().single(): one row must match, and no
\* NOT NULL column may be set to null
UpdateAccepted(table, id, updateData) ==
    /\ \E r \in table : r.id = id
    /\ \A c \in DOMAIN updateData \cap NotNullColumns : updateData[c] # Null

UpdatedRow(r, updateData) ==
    [c \in DOMAIN r |-> IF c \in DOMAIN updateData THEN updateData[c] ELSE r[c]]

UpdateRows(table, id, updateData) ==
    {IF r.id = id THEN UpdatedRow(r, updateData) ELSE r : r \in table}

RowOf(table, id) == CHOOSE r \in table : r.id = id

mapDbToProduct(dbProduct) ==
    [id |-> dbProduct.id,
     name |-> dbProduct.name,
     batchNumber |-> dbProduct.batch_number,
     currentStock |-> dbProduct.current_stock,
     minStockLevel |-> dbProduct.min_stock_level,
     unitPrice |-> dbProduct.unit_price,
     sellingPrice |-> dbProduct.selling_price]

mapDbToClient(dbClient) ==
    [id |-> dbClient.id,
     name |-> dbClient.name,
     totalPurchases |-> dbClient.total_purchases,
     lastPurchaseDate |-> dbClient.last_purchase_date]

\* productService.getAll and clientService.getAll: `return data || []`
productGetAll == OrderDesc(dbProducts)
clientGetAll == OrderDesc(dbClients)

\* the row productService.create inserts
ProductInsert(id, product) ==
    [id |-> id,
     name |-> product.name,
     batch_number |-> product.batchNumber,
     current_stock |-> product.currentStock,
     min_stock_level |-> product.minStockLevel,
     unit_price |-> product.unitPrice,
     selling_price |-> product.sellingPrice]

\* the row clientService.create inserts
ClientInsert(id, client) ==
    [id |-> id,
     name |-> client.name,
     total_purchases |-> IF IsNumber(client.totalPurchases) THEN client.totalPurchases ELSE 0,
     last_purchase_date |-> client.lastPurchaseDate]

\* salesService.create, first insert: the row of table sales
SaleInsert(id, sale, t) ==
    [id |-> id,
     client_id |-> sale.clientId,
     client_name |-> sale.clientName,
     total_amount |-> sale.totalAmount,
     discount |-> sale.discount,
     final_amount |-> sale.finalAmount,
     payment_method |-> sale.paymentMethod,
     created_at |-> t]

\* salesService.create, second insert: saleItemsData, one row per item. pos stands
\* for the generated row id; rows come back in insertion order
SaleItemsInsert(saleId, sale) ==
    {[sale_id |-> saleId,
      pos |-> i,
      product_id |-> sale.items[i].productId,
      product_name |-> sale.items[i].productName,
      quantity |-> sale.items[i].quantity,
      unit_price |-> sale.items[i].unitPrice,
      total_price |-> sale.items[i].totalPrice] : i \in DOMAIN sale.items}

\* what salesService.create returns: the inserted row's columns and the caller's items
CreatedSale(saleData, sale) ==
    [id |-> saleData.id,
     clientId |-> saleData.client_id,
     clientName |-> saleData.client_name,
     items |-> sale.items,
     totalAmount |-> saleData.total_amount,
     discount |-> saleData.discount,
     finalAmount |-> saleData.final_amount,
     paymentMethod |-> saleData.payment_method,
     createdAt |-> saleData.created_at]

RECURSIVE ItemsInOrder(_)
ItemsInOrder(rows) ==
    IF rows = {} THEN <<>>
    ELSE LET first == CHOOSE r \in rows : \A o \in rows : r.pos <= o.pos
         IN <<[productId |-> first.product_id,
               productName |-> first.product_name,
               quantity |-> first.quantity,
               unitPrice |-> first.unit_price,
               totalPrice |-> first.total_price]>> \o ItemsInOrder(rows \ {first})

\* the client's name joined from table clients instead of the copied column
MapSaleJoined(sale, itemRows) ==
    [id |-> sale.id,
     clientId |-> sale.client_id,
     clientName |-> IF \E c \in dbClients : c.id = sale.client_id
                    THEN RowOf(dbClients, sale.client_id).name ELSE sale.client_name,
     items |-> ItemsInOrder({r \in itemRows : r.sale_id = sale.id}),
     totalAmount |-> sale.total_amount,
     discount |-> sale.discount,
     finalAmount |-> sale.final_amount,
     paymentMethod |-> sale.payment_method,
     createdAt |-> sale.created_at]

\* salesService.getAll maps one row of sales with its embedded sale_items
MapSale(sale, itemRows) ==
    [id |-> sale.id,
     clientId |-> sale.client_id,
     clientName |-> sale.client_name,
     items |-> ItemsInOrder({r \in itemRows : r.sale_id = sale.id}),
     totalAmount |-> sale.total_amount,
     discount |-> sale.discount,
     finalAmount |-> sale.final_amount,
     paymentMethod |-> sale.payment_method,
     createdAt |-> sale.created_at]

salesGetAll ==
    LET rows == OrderDesc(dbSales)
    IN [i \in DOMAIN rows |-> MapSale(rows[i], dbSaleItems)]

\* foreign keys of database-setup.sql
ClientKeyHolds(sale) == \E c \in dbClients : c.id = sale.clientId
ProductKeysHold(sale, productRows) ==
    \A i \in DOMAIN sale.items : \E p \in productRows : p.id = sale.items[i].productId

\* the client's sales left in place
SalesAfterClientDeleteKept(id) == dbSales

\* ON DELETE CASCADE
ProductsAfterDelete(id) == {p \in dbProducts : p.id # id}
ItemsAfterProductDelete(id) == {r \in dbSaleItems : r.product_id # id}
ClientsAfterDelete(id) == {c \in dbClients : c.id # id}
SalesAfterClientDelete(id) == {r \in dbSales : r.client_id # id}
ItemsAfterClientDelete(id) ==
    {r \in dbSaleItems : \E sl \in SalesAfterClientDelete(id) : sl.id = r.sale_id}

\* ------------------------------------------------------------- inputs
DefaultPrice == 2

\* what the inventory form submits for a new product
NewProducts ==
    {[name |-> "a", batchNumber |-> "B1", currentStock |-> InitStock,
      minStockLevel |-> MinStock, unitPrice |-> CostPrice, sellingPrice |-> DefaultPrice]}

\* partial updates of a product: a rename, a price change
ProductEdits == {[name |-> "b"], [sellingPrice |-> 3]}

\* Clients.handleSubmit builds clientData for an add and for an edit alike
ClientFormData(name) == [name |-> name, totalPurchases |-> 0, lastPurchaseDate |-> now]

\* partial updates of a client: the edit form's submit, or a bare rename
ClientEdits == {ClientFormData("b"), [name |-> "b"]}

\* Sales.updateSaleItem on productId: name and price are copied from the product
FormItem(s, productId, quantity) ==
    LET i == FindIndex(products[s], productId)
        price == IF i # 0 /\ IsNumber(Field(products[s][i], "sellingPrice"))
                 THEN products[s][i].sellingPrice ELSE DefaultPrice
    IN [productId |-> productId,
        productName |-> IF i # 0 THEN products[s][i].name ELSE "",
        quantity |-> quantity,
        unitPrice |-> price,
        totalPrice |-> quantity * price]

\* Sales.handleSubmit builds saleData; a clientId the session does not hold can only
\* come from a direct caller of addSale
FormSale(s, clientId, items, reduction) ==
    LET i == FindIndex(clients[s], clientId)
        totalAmount == SumOver(items, "totalPrice")
    IN [clientId |-> clientId,
        clientName |-> IF i # 0 THEN clients[s][i].name ELSE "",
        items |-> items,
        totalAmount |-> totalAmount,
        discount |-> reduction,
        finalAmount |-> totalAmount - reduction,
        paymentMethod |-> "cash"]

Discounts == {1}

ItemChoices == (1..MaxProducts) \X (1..MaxQty)

ItemLists(s) ==
    UNION {{[i \in 1..n |-> FormItem(s, c[i][1], c[i][2])] : c \in [1..n -> ItemChoices]}
           : n \in 1..MaxItems}

SaleInputs(s) ==
    {FormSale(s, clientId, items, reduction) :
        clientId \in 1..MaxClients, items \in ItemLists(s), reduction \in Discounts}

\* ------------------------------------------------------------- useDatabase
NoCall == [op |-> "none"]

\* the promise resolved, or no operation has run
NoRejection == [raisedBy |-> "none"]

\* the error a boundary call throws (`if (error) throw error`), told apart by the call
Raised(service) == [raisedBy |-> service]

\* the boundary call behind each step of addSale
RaisedAt == [sale |-> "salesService.create", items |-> "salesService.create",
             stock |-> "productService.update", client |-> "clientService.update"]

Replace(seq, id, entity) == [i \in DOMAIN seq |-> IF seq[i].id = id THEN entity ELSE seq[i]]
Without(seq, id) == SelectSeq(seq, LAMBDA e : e.id # id)

\* a session takes one user action at a time
Idle(s) == s \in active /\ pc[s] = "idle" /\ budget.ops < MaxOps

Started == budget' = [budget EXCEPT !.ops = @ + 1]

\* a store call fails: always possible when the store refuses the request, and
\* otherwise by a fault (the network, the service) while the fault budget lasts
Failing(accepted) == accepted => budget.faults < MaxFaults
Faulted(b, accepted) ==
    IF accepted THEN [b EXCEPT !.faults = @ + 1] ELSE [b EXCEPT !.refused = @ + 1]

addProduct(s, productData) ==
    /\ Idle(s)
    /\ nextId.products < MaxProducts
    /\ \/ LET row == ProductInsert(nextId.products + 1, productData)
          IN /\ dbProducts' = dbProducts \cup {row}
             /\ nextId' = [nextId EXCEPT !.products = @ + 1]
             /\ products' = [products EXCEPT ![s] = <<mapDbToProduct(row)>> \o @]
             /\ Started
             /\ UNCHANGED error
             /\ rejection' = [rejection EXCEPT ![s] = NoRejection]
       \/ /\ Failing(TRUE)
          /\ budget' = Faulted([budget EXCEPT !.ops = @ + 1], TRUE)
          /\ error' = [error EXCEPT ![s] = "Failed to add product"]
          /\ rejection' = [rejection EXCEPT ![s] = Raised("productService.create")]
          /\ UNCHANGED <<dbProducts, nextId, products>>
    /\ UNCHANGED <<dbClients, dbSales, dbSaleItems, now, active, clients, sales, pc, call, pages>>

\* productService.update followed by setProducts(prev => prev.map(...))
ProductUpdated(s, id, updates) ==
    LET updateData == UpdateData(updates, ProductColumn)
    IN /\ UpdateAccepted(dbProducts, id, updateData)
       /\ dbProducts' = UpdateRows(dbProducts, id, updateData)
       /\ products' = [products EXCEPT ![s] =
              Replace(@, id, mapDbToProduct(UpdatedRow(RowOf(dbProducts, id), updateData)))]

ProductUpdateAccepted(id, updates) ==
    UpdateAccepted(dbProducts, id, UpdateData(updates, ProductColumn))

updateProduct(s, id, updates) ==
    /\ Idle(s)
    /\ \/ /\ ProductUpdated(s, id, updates)
          /\ Started
          /\ UNCHANGED error
          /\ rejection' = [rejection EXCEPT ![s] = NoRejection]
       \/ /\ Failing(ProductUpdateAccepted(id, updates))
          /\ budget' = Faulted([budget EXCEPT !.ops = @ + 1], ProductUpdateAccepted(id, updates))
          /\ error' = [error EXCEPT ![s] = "Failed to update product"]
          /\ rejection' = [rejection EXCEPT ![s] = Raised("productService.update")]
          /\ UNCHANGED <<dbProducts, products>>
    /\ UNCHANGED <<dbClients, dbSales, dbSaleItems, nextId, now, active, clients, sales, pc, call, pages>>

\* the product taken out of the list before the store has answered
deleteProductOptimistic(s, id) ==
    /\ Idle(s)
    /\ products' = [products EXCEPT ![s] = Without(@, id)]
    /\ \/ /\ dbProducts' = ProductsAfterDelete(id)
          /\ dbSaleItems' = ItemsAfterProductDelete(id)
          /\ Started
          /\ UNCHANGED error
          /\ rejection' = [rejection EXCEPT ![s] = NoRejection]
       \/ /\ Failing(TRUE)
          /\ budget' = Faulted([budget EXCEPT !.ops = @ + 1], TRUE)
          /\ error' = [error EXCEPT ![s] = "Failed to delete product"]
          /\ rejection' = [rejection EXCEPT ![s] = Raised("productService.delete")]
          /\ UNCHANGED <<dbProducts, dbSaleItems>>
    /\ UNCHANGED <<dbClients, dbSales, nextId, now, active, clients, sales, pc, call, pages>>

deleteProduct(s, id) ==
    /\ Idle(s)
    /\ \/ /\ dbProducts' = ProductsAfterDelete(id)
          /\ dbSaleItems' = ItemsAfterProductDelete(id)
          /\ products' = [products EXCEPT ![s] = Without(@, id)]
          /\ Started
          /\ UNCHANGED error
          /\ rejection' = [rejection EXCEPT ![s] = NoRejection]
       \/ /\ Failing(TRUE)
          /\ budget' = Faulted([budget EXCEPT !.ops = @ + 1], TRUE)
          /\ error' = [error EXCEPT ![s] = "Failed to delete product"]
          /\ rejection' = [rejection EXCEPT ![s] = Raised("productService.delete")]
          /\ UNCHANGED <<dbProducts, dbSaleItems, products>>
    /\ UNCHANGED <<dbClients, dbSales, nextId, now, active, clients, sales, pc, call, pages>>

\* the error cleared by the next operation that succeeds
addClientClearing(s, clientData) ==
    /\ Idle(s)
    /\ nextId.clients < MaxClients
    /\ \/ LET row == ClientInsert(nextId.clients + 1, clientData)
          IN /\ dbClients' = dbClients \cup {row}
             /\ nextId' = [nextId EXCEPT !.clients = @ + 1]
             /\ clients' = [clients EXCEPT ![s] = <<mapDbToClient(row)>> \o @]
             /\ Started
             /\ error' = [error EXCEPT ![s] = NoError]
             /\ rejection' = [rejection EXCEPT ![s] = NoRejection]
       \/ /\ Failing(TRUE)
          /\ budget' = Faulted([budget EXCEPT !.ops = @ + 1], TRUE)
          /\ error' = [error EXCEPT ![s] = "Failed to add client"]
          /\ rejection' = [rejection EXCEPT ![s] = Raised("clientService.create")]
          /\ UNCHANGED <<dbClients, nextId, clients>>
    /\ UNCHANGED <<dbProducts, dbSales, dbSaleItems, now, active, products, sales, pc, call, pages>>

addClient(s, clientData) ==
    /\ Idle(s)
    /\ nextId.clients < MaxClients
    /\ \/ LET row == ClientInsert(nextId.clients + 1, clientData)
          IN /\ dbClients' = dbClients \cup {row}
             /\ nextId' = [nextId EXCEPT !.clients = @ + 1]
             /\ clients' = [clients EXCEPT ![s] = <<mapDbToClient(row)>> \o @]
             /\ Started
             /\ UNCHANGED error
             /\ rejection' = [rejection EXCEPT ![s] = NoRejection]
       \/ /\ Failing(TRUE)
          /\ budget' = Faulted([budget EXCEPT !.ops = @ + 1], TRUE)
          /\ error' = [error EXCEPT ![s] = "Failed to add client"]
          /\ rejection' = [rejection EXCEPT ![s] = Raised("clientService.create")]
          /\ UNCHANGED <<dbClients, nextId, clients>>
    /\ UNCHANGED <<dbProducts, dbSales, dbSaleItems, now, active, products, sales, pc, call, pages>>

\* clientService.update followed by setClients(prev => prev.map(...))
ClientUpdated(s, id, updates) ==
    LET updateData == UpdateData(updates, ClientColumn)
    IN /\ UpdateAccepted(dbClients, id, updateData)
       /\ dbClients' = UpdateRows(dbClients, id, updateData)
       /\ clients' = [clients EXCEPT ![s] =
              Replace(@, id, mapDbToClient(UpdatedRow(RowOf(dbClients, id), updateData)))]

ClientUpdateAccepted(id, updates) ==
    UpdateAccepted(dbClients, id, UpdateData(updates, ClientColumn))

updateClient(s, id, updates) ==
    /\ Idle(s)
    /\ \/ /\ ClientUpdated(s, id, updates)
          /\ Started
          /\ UNCHANGED error
          /\ rejection' = [rejection EXCEPT ![s] = NoRejection]
       \/ /\ Failing(ClientUpdateAccepted(id, updates))
          /\ budget' = Faulted([budget EXCEPT !.ops = @ + 1], ClientUpdateAccepted(id, updates))
          /\ error' = [error EXCEPT ![s] = "Failed to update client"]
          /\ rejection' = [rejection EXCEPT ![s] = Raised("clientService.update")]
          /\ UNCHANGED <<dbClients, clients>>
    /\ UNCHANGED <<dbProducts, dbSales, dbSaleItems, nextId, now, active, products, sales, pc, call, pages>>

deleteClient(s, id) ==
    /\ Idle(s)
    /\ \/ /\ dbClients' = ClientsAfterDelete(id)
          /\ dbSales' = SalesAfterClientDelete(id)
          /\ dbSaleItems' = ItemsAfterClientDelete(id)
          /\ clients' = [clients EXCEPT ![s] = Without(@, id)]
          /\ sales' = [sales EXCEPT ![s] = SelectSeq(@, LAMBDA sl : sl.clientId # id)]
          /\ Started
          /\ UNCHANGED error
          /\ rejection' = [rejection EXCEPT ![s] = NoRejection]
       \/ /\ Failing(TRUE)
          /\ budget' = Faulted([budget EXCEPT !.ops = @ + 1], TRUE)
          /\ error' = [error EXCEPT ![s] = "Failed to delete client"]
          /\ rejection' = [rejection EXCEPT ![s] = Raised("clientService.delete")]
          /\ UNCHANGED <<dbClients, dbSales, dbSaleItems, clients, sales>>
    /\ UNCHANGED <<dbProducts, nextId, now, active, products, pc, call, pages>>

\* a page load: the state starts empty and loadAllData fills it from the three
\* getAll calls, or from none of them when one fails
loadAllData(s) ==
    /\ Idle(s)
    /\ \/ /\ products' = [products EXCEPT ![s] = productGetAll]
          /\ clients' = [clients EXCEPT ![s] = clientGetAll]
          /\ sales' = [sales EXCEPT ![s] = salesGetAll]
          /\ error' = [error EXCEPT ![s] = NoError]
          /\ rejection' = [rejection EXCEPT ![s] = NoRejection]
          /\ Started
       \/ /\ Failing(TRUE)
          /\ budget' = Faulted([budget EXCEPT !.ops = @ + 1], TRUE)
          /\ products' = [products EXCEPT ![s] = <<>>]
          /\ clients' = [clients EXCEPT ![s] = <<>>]
          /\ sales' = [sales EXCEPT ![s] = <<>>]
          /\ error' = [error EXCEPT ![s] = "Failed to load data from database"]
          /\ rejection' = [rejection EXCEPT ![s] = NoRejection]
    /\ UNCHANGED <<dbProducts, dbClients, dbSales, dbSaleItems, nextId, now, active, pc, call, pages>>

\* ------------------------------------------------------------- addSale
\* a slip of the sign
StockAfterSaleAdded(product, item) == Plus(Field(product, "currentStock"), item.quantity)

\* an atomic decrement of the row instead of a write of the session's own figure
StockAfterSaleInStore(product, item) ==
    IF \E r \in dbProducts : r.id = product.id
    THEN RowOf(dbProducts, product.id).current_stock - item.quantity
    ELSE Minus(Field(product, "currentStock"), item.quantity)

\* `currentStock: product.currentStock - item.quantity`
StockAfterSale(product, item) == Minus(Field(product, "currentStock"), item.quantity)

\* the amount before the discount
PurchasesAfterSaleGross(client, saleData) ==
    Plus(Field(client, "totalPurchases"), saleData.totalAmount)

\* `totalPurchases: client.totalPurchases + saleData.finalAmount`
PurchasesAfterSale(client, saleData) == Plus(Field(client, "totalPurchases"), saleData.finalAmount)

\* the closure of one addSale call: `products` and `clients` are the arrays of the
\* render that created the function, not the state the setters have reached since
StartCall(s, saleData) ==
    [op |-> "addSale",
     saleData |-> saleData,
     newSale |-> [id |-> 0],
     products |-> products[s],
     clients |-> clients[s],
     k |-> 1,
     log |-> <<>>,
     failedAt |-> "none"]

Logged(c, op, id, ok) == [c EXCEPT !.log = Append(@, [op |-> op, id |-> id, ok |-> ok])]

\* the catch block of addSale
Rejected(s, c, at) ==
    /\ error' = [error EXCEPT ![s] = "Failed to add sale"]
    /\ rejection' = [rejection EXCEPT ![s] = Raised(RaisedAt[at])]
    /\ pc' = [pc EXCEPT ![s] = "rejected"]
    /\ call' = [call EXCEPT ![s] = [c EXCEPT !.failedAt = at]]

\* salesService.create and setSales(prev => [newSale, ...prev])
addSaleCreate(s, saleData) ==
    /\ Idle(s)
    /\ nextId.sales < MaxSales
    /\ LET id == nextId.sales + 1
           row == SaleInsert(id, saleData, now)
           c == StartCall(s, saleData)
           started == [budget EXCEPT !.ops = @ + 1]
       IN \/ \* the insert into sales fails
             /\ Failing(ClientKeyHolds(saleData))
             /\ budget' = Faulted(started, ClientKeyHolds(saleData))
             /\ Rejected(s, Logged(c, "insertSale", id, FALSE), "sale")
             /\ UNCHANGED <<dbSales, dbSaleItems, nextId, now, sales>>
          \/ \* the row is inserted, the insert into sale_items fails
             /\ ClientKeyHolds(saleData)
             /\ Failing(ProductKeysHold(saleData, dbProducts))
             /\ budget' = Faulted(started, ProductKeysHold(saleData, dbProducts))
             /\ dbSales' = dbSales \cup {row}
             /\ nextId' = [nextId EXCEPT !.sales = id]
             /\ now' = now + 1
             /\ Rejected(s, Logged(Logged(c, "insertSale", id, TRUE), "insertItems", id, FALSE),
                         "items")
             /\ UNCHANGED <<dbSaleItems, sales>>
          \/ /\ ClientKeyHolds(saleData)
             /\ ProductKeysHold(saleData, dbProducts)
             /\ budget' = started
             /\ dbSales' = dbSales \cup {row}
             /\ dbSaleItems' = dbSaleItems \cup SaleItemsInsert(id, saleData)
             /\ nextId' = [nextId EXCEPT !.sales = id]
             /\ now' = now + 1
             /\ sales' = [sales EXCEPT ![s] = <<CreatedSale(row, saleData)>> \o @]
             /\ pc' = [pc EXCEPT ![s] = "stock"]
             /\ call' = [call EXCEPT ![s] =
                    [Logged(Logged(c, "insertSale", id, TRUE), "insertItems", id, TRUE)
                        EXCEPT !.newSale = CreatedSale(row, saleData)]]
             /\ UNCHANGED error
             /\ rejection' = [rejection EXCEPT ![s] = NoRejection]
    /\ UNCHANGED <<dbProducts, dbClients, active, products, clients, pages>>

\* the position after item k of the loop
AfterItem(c) ==
    IF c.k < Len(c.saleData.items) THEN [c EXCEPT !.k = @ + 1] ELSE c

\* the loop left after its first item
PcAfterItemFirst(c) == "client"

PcAfterItem(c) == IF c.k < Len(c.saleData.items) THEN "stock" ELSE "client"

\* a missing product raised as an error
SkipItemThrows(s, c) ==
    /\ Rejected(s, c, "stock")
    /\ UNCHANGED <<dbProducts, products, budget>>

\* `if (product)` is false: the loop goes on to the next item
SkipItem(s, c) ==
    /\ pc' = [pc EXCEPT ![s] = PcAfterItem(c)]
    /\ call' = [call EXCEPT ![s] = AfterItem(c)]
    /\ UNCHANGED <<dbProducts, products, error, rejection, budget>>

\* one turn of `for (const item of saleData.items)`
addSaleStock(s) ==
    /\ s \in active
    /\ pc[s] = "stock"
    /\ LET c == call[s]
           item == c.saleData.items[c.k]
           i == FindIndex(c.products, item.productId)
       IN IF i = 0
          THEN SkipItem(s, c)
          ELSE LET updates == [currentStock |-> StockAfterSale(c.products[i], item)]
               IN \/ /\ ProductUpdated(s, item.productId, updates)
                     /\ pc' = [pc EXCEPT ![s] = PcAfterItem(c)]
                     /\ call' = [call EXCEPT ![s] =
                            AfterItem(Logged(c, "updateProduct", item.productId, TRUE))]
                     /\ UNCHANGED <<error, rejection, budget>>
                  \/ /\ Failing(ProductUpdateAccepted(item.productId, updates))
                     /\ budget' = Faulted(budget, ProductUpdateAccepted(item.productId, updates))
                     /\ Rejected(s, Logged(c, "updateProduct", item.productId, FALSE), "stock")
                     /\ UNCHANGED <<dbProducts, products>>
    /\ UNCHANGED <<dbClients, dbSales, dbSaleItems, nextId, now, active, clients, sales, pages>>

\* the client lookup and update, then `return newSale`
addSaleClient(s) ==
    /\ s \in active
    /\ pc[s] = "client"
    /\ LET c == call[s]
           i == FindIndex(c.clients, c.saleData.clientId)
       IN IF i = 0
          THEN /\ pc' = [pc EXCEPT ![s] = "resolved"]
               /\ UNCHANGED <<dbClients, clients, error, rejection, call, budget>>
          ELSE LET client == c.clients[i]
                   updates == [totalPurchases |-> PurchasesAfterSale(client, c.saleData),
                               lastPurchaseDate |-> c.newSale.createdAt]
               IN \/ /\ ClientUpdated(s, client.id, updates)
                     /\ pc' = [pc EXCEPT ![s] = "resolved"]
                     /\ call' = [call EXCEPT ![s] = Logged(c, "updateClient", client.id, TRUE)]
                     /\ UNCHANGED <<error, rejection, budget>>
                  \/ /\ Failing(ClientUpdateAccepted(client.id, updates))
                     /\ budget' = Faulted(budget, ClientUpdateAccepted(client.id, updates))
                     /\ Rejected(s, Logged(c, "updateClient", client.id, FALSE), "client")
                     /\ UNCHANGED <<dbClients, clients>>
    /\ UNCHANGED <<dbProducts, dbSales, dbSaleItems, nextId, now, active, products, sales, pages>>

\* the caller has seen the promise settle; the session takes the next user action
settle(s) ==
    /\ s \in active
    /\ pc[s] \in {"resolved", "rejected"}
    /\ pc' = [pc EXCEPT ![s] = "idle"]
    /\ call' = [call EXCEPT ![s] = NoCall]
    /\ UNCHANGED <<dbProducts, dbClients, dbSales, dbSaleItems, nextId, now, active,
                   products, clients, sales, error, rejection, budget, pages>>

\* App.renderCurrentPage outside a load: `if (error)` shows the error screen in place
\* of the current page
renderCurrentPage(s) == IF error[s] \notin {NoError, ""} THEN "error" ELSE "page"

\* ------------------------------------------------------------- Sales: the sale form
hook == <<dbProducts, dbClients, dbSales, dbSaleItems, nextId, now, active,
          products, clients, sales, error, rejection, pc, call, budget>>

form == <<showAddForm, selectedClient, saleItems, discount, submitted>>

metrics == <<dashboardStats, timeRange, analyticsData, metricsCall>>

\* a * b on JavaScript numbers
Times(a, b) == IF IsNumber(a) /\ IsNumber(b) THEN a * b ELSE NaN

\* array.reduce((sum, x) => sum + x[f], 0)
RECURSIVE ReduceSum(_, _, _)
ReduceSum(seq, f, sum) ==
    IF seq = <<>> THEN sum ELSE ReduceSum(Tail(seq), f, Plus(sum, Field(Head(seq), f)))

NoSale == [clientId |-> 0, items |-> <<>>]

\* what the inputs of the form can hold: `parseInt(e.target.value) || 0`,
\* `parseFloat(e.target.value) || 0`
FormQuantities == 0..MaxQty
FormPrices == {0, DefaultPrice}
LargeDiscount == 5
FormDiscounts == {0, LargeDiscount} \cup Discounts

\* the item addSaleItem appends
NewSaleItem == [productId |-> 0, productName |-> "", quantity |-> 1, unitPrice |-> 0, totalPrice |-> 0]

\* the New Sale button
openForm ==
    /\ ~ showAddForm
    /\ showAddForm' = TRUE
    /\ submitted' = NoSale
    /\ UNCHANGED <<selectedClient, saleItems, discount, hook, metrics>>

\* the Cancel button
closeForm ==
    /\ showAddForm
    /\ showAddForm' = FALSE
    /\ UNCHANGED <<selectedClient, saleItems, discount, submitted, hook, metrics>>

setSelectedClient(value) ==
    /\ showAddForm
    /\ selectedClient' = value
    /\ UNCHANGED <<showAddForm, saleItems, discount, submitted, hook, metrics>>

setDiscount(value) ==
    /\ showAddForm
    /\ discount' = value
    /\ UNCHANGED <<showAddForm, selectedClient, saleItems, submitted, hook, metrics>>

addSaleItem ==
    /\ showAddForm
    /\ Len(saleItems) < MaxItems
    /\ saleItems' = Append(saleItems, NewSaleItem)
    /\ UNCHANGED <<showAddForm, selectedClient, discount, submitted, hook, metrics>>

\* newItems[index] of updateSaleItem for the fields the form edits
ItemAfterUpdate(s, item, field, value) ==
    LET newItem == [item EXCEPT ![field] = value]
        i == FindIndex(products[s], value)
    IN IF field = "productId"
       THEN IF i # 0
            THEN [newItem EXCEPT !.productName = products[s][i].name,
                                 !.unitPrice = Field(products[s][i], "sellingPrice"),
                                 !.totalPrice = Times(Field(products[s][i], "sellingPrice"),
                                                      newItem.quantity)]
            ELSE newItem
       ELSE [newItem EXCEPT !.totalPrice = Times(newItem.quantity, newItem.unitPrice)]

updateSaleItem(s, index, field, value) ==
    /\ s \in active
    /\ showAddForm
    /\ index \in DOMAIN saleItems
    /\ saleItems' = [saleItems EXCEPT ![index] = ItemAfterUpdate(s, @, field, value)]
    /\ UNCHANGED <<showAddForm, selectedClient, discount, submitted, hook, metrics>>

removeSaleItem(index) ==
    /\ showAddForm
    /\ index \in DOMAIN saleItems
    /\ saleItems' = [i \in 1..(Len(saleItems) - 1) |->
                        IF i < index THEN saleItems[i] ELSE saleItems[i + 1]]
    /\ UNCHANGED <<showAddForm, selectedClient, discount, submitted, hook, metrics>>

\* `const totalAmount = ...; const finalAmount = totalAmount - discount`
totalAmount == ReduceSum(saleItems, "totalPrice", 0)
finalAmount == Minus(totalAmount, discount)

\* The browser raises the submit event only when the form's controls are valid: a
\* product chosen in every `required` select, every quantity at least its min="1", every
\* price and the discount at least their min="0". A price input whose value is
\* undefined keeps the number it showed before.
checkValidity ==
    /\ selectedClient # 0
    /\ discount >= 0
    /\ \A i \in DOMAIN saleItems :
           /\ saleItems[i].productId # 0
           /\ saleItems[i].quantity >= 1
           /\ IsNumber(saleItems[i].unitPrice) => saleItems[i].unitPrice >= 0

\* Sales.handleSubmit: the saleData goes to onAddSale and the form is reset
handleSubmit(s) ==
    /\ s \in active
    /\ showAddForm
    /\ checkValidity
    /\ FindIndex(clients[s], selectedClient) # 0
    /\ saleItems # <<>>
    /\ submitted' = [clientId |-> selectedClient,
                     clientName |-> clients[s][FindIndex(clients[s], selectedClient)].name,
                     items |-> saleItems,
                     totalAmount |-> totalAmount,
                     discount |-> discount,
                     finalAmount |-> finalAmount,
                     paymentMethod |-> "cash"]
    /\ selectedClient' = 0
    /\ saleItems' = <<>>
    /\ discount' = 0
    /\ showAddForm' = FALSE
    /\ UNCHANGED <<hook, metrics>>

FormInit ==
    /\ showAddForm = FALSE
    /\ selectedClient = 0
    /\ saleItems = <<>>
    /\ discount = 0
    /\ submitted = NoSale

\* ------------------------------------------------------------- dates and numbers
\* Times are counted in hours; a Date is the number of hours since a 1 January, 00:00
\* local time, of a calendar of common years.
Day == 24

MonthLengths == <<31, 28, 31, 30, 31, 30, 31, 31, 30, 31, 30, 31>>

RECURSIVE DaysBefore(_)
DaysBefore(month) == IF month = 0 THEN 0 ELSE MonthLengths[month] + DaysBefore(month - 1)

YearLength == DaysBefore(Len(MonthLengths)) * Day

DayOfYear(t) == (t % YearLength) \div Day

getFullYear(t) == t \div YearLength

\* 0 for January
getMonth(t) == CHOOSE m \in 0..11 : DaysBefore(m) <= DayOfYear(t) /\ DayOfYear(t) < DaysBefore(m + 1)

\* the day of the month, from 1
getDate(t) == DayOfYear(t) - DaysBefore(getMonth(t)) + 1

\* new Date(y, m, d), new Date(y, m, 1), new Date(y, 0, 1)
Today(t) == t - (t % Day)
ThisMonth(t) == Today(t) - (getDate(t) - 1) * Day
\* the year counted as the last 365 days
ThisYearRolling(t) == t - YearLength

ThisYear(t) == t - (t % YearLength)

\* the label without the year
MonthOnly(t) == getMonth(t) + 1

\* `${getFullYear()}-${String(getMonth() + 1).padStart(2, '0')}`: two strings of this
\* form compare as the numbers year * 100 + month do
MonthKey(t) == getFullYear(t) * 100 + getMonth(t) + 1

RECURSIVE GCD(_, _)
GCD(a, b) == IF b = 0 THEN a ELSE GCD(b, a % b)

\* a / b on JavaScript numbers, kept exact as a fraction in lowest terms; a division
\* that has no finite value is NaN
Div(a, b) ==
    IF ~ IsNumber(a) \/ ~ IsNumber(b) \/ b = 0 \/ a < 0 \/ b < 0 THEN [num |-> NaN, den |-> 1]
    ELSE [num |-> a \div GCD(a, b), den |-> b \div GCD(a, b)]

\* quotient * k
Scaled(q, k) == Div(Times(q.num, k), q.den)

\* Math.max(1, Math.ceil(a / b))
CeilDays(a, b) == IF (a + b - 1) \div b > 1 THEN (a + b - 1) \div b ELSE 1

\* a <= b on JavaScript values: false when either side is no number
LessEq(a, b) == IsNumber(a) /\ IsNumber(b) /\ a <= b

Take(seq, n) == SubSeq(seq, 1, IF Len(seq) < n THEN Len(seq) ELSE n)

\* ties put in reverse
SortDescReversing(seq, f) ==
    LET rank(i) == 1 + Cardinality({j \in DOMAIN seq :
                          seq[j][f] > seq[i][f] \/ (seq[j][f] = seq[i][f] /\ j > i)})
    IN [r \in DOMAIN seq |-> seq[CHOOSE i \in DOMAIN seq : rank(i) = r]]

\* array.sort((a, b) => b[f] - a[f]): descending by f, equal elements keep their order
SortDesc(seq, f) ==
    LET rank(i) == 1 + Cardinality({j \in DOMAIN seq :
                          seq[j][f] > seq[i][f] \/ (seq[j][f] = seq[i][f] /\ j < i)})
    IN [r \in DOMAIN seq |-> seq[CHOOSE i \in DOMAIN seq : rank(i) = r]]

\* array.sort((a, b) => a[f].localeCompare(b[f]))
SortAsc(seq, f) ==
    LET rank(i) == 1 + Cardinality({j \in DOMAIN seq :
                          seq[j][f] < seq[i][f] \/ (seq[j][f] = seq[i][f] /\ j < i)})
    IN [r \in DOMAIN seq |-> seq[CHOOSE i \in DOMAIN seq : rank(i) = r]]

\* the keys of a Map filled in the order of seq: each value of f once, in the order of
\* its first appearance
MapKeys(seq, f) ==
    LET firsts == {i \in DOMAIN seq : \A j \in 1..(i - 1) : seq[j][f] # seq[i][f]}
        nth(r) == CHOOSE i \in firsts : Cardinality({j \in firsts : j < i}) = r - 1
    IN [r \in 1..Cardinality(firsts) |-> seq[nth(r)][f]]

Having(seq, f, key) == SelectSeq(seq, LAMBDA x : x[f] = key)

\* sales.forEach(sale => sale.items.forEach(...)): the items in the order visited
RECURSIVE AllItems(_)
AllItems(saleList) ==
    IF saleList = <<>> THEN <<>> ELSE Head(saleList).items \o AllItems(Tail(saleList))

\* ------------------------------------------------------------- calculateDashboardStats
\* the comparison taken strictly
LowStockStrict(p) ==
    /\ IsNumber(Field(p, "currentStock"))
    /\ IsNumber(Field(p, "minStockLevel"))
    /\ Field(p, "currentStock") < Field(p, "minStockLevel")

\* `p.currentStock <= p.minStockLevel`
LowStock(p) == LessEq(Field(p, "currentStock"), Field(p, "minStockLevel"))

\* a sale made at the very start of the period left out
SinceAfter(saleList, start) == SelectSeq(saleList, LAMBDA sale : sale.createdAt > start)

\* sales.filter(sale => new Date(sale.createdAt) >= start)
Since(saleList, start) == SelectSeq(saleList, LAMBDA sale : sale.createdAt >= start)

\* the first five as they come
RecentSalesUnsorted(saleList) == Take(saleList, 5)

\* sales.sort(...).slice(0, 5), the sort having been done on saleList
RecentSales(saleList) == Take(SortDesc(saleList, "createdAt"), 5)

\* the Map productSales after the forEach over the items
ProductSales(items) ==
    LET keys == MapKeys(items, "productId")
    IN [r \in DOMAIN keys |->
           LET mine == Having(items, "productId", keys[r])
           IN [productId |-> keys[r],
               productName |-> mine[Len(mine)].productName,
               quantitySold |-> ReduceSum(mine, "quantity", 0),
               revenue |-> ReduceSum(mine, "totalPrice", 0)]]

\* ranked by revenue
TopProductsByRevenue(saleList) == Take(SortDesc(ProductSales(AllItems(saleList)), "revenue"), 5)

\* Array.from(productSales.entries()).map(...).sort(...).slice(0, 5)
TopProducts(saleList) == Take(SortDesc(ProductSales(AllItems(saleList)), "quantitySold"), 5)

\* what calculateDashboardStats returns at time t; from line 37 on `sales` is sorted
calculateDashboardStats(productList, saleList, clientList, t) ==
    LET sorted == SortDesc(saleList, "createdAt")
        monthTotal == ReduceSum(Since(saleList, ThisMonth(t)), "finalAmount", 0)
        yearTotal == ReduceSum(Since(saleList, ThisYear(t)), "finalAmount", 0)
    IN [totalProducts |-> Len(productList),
        lowStockProducts |-> Len(SelectSeq(productList, LowStock)),
        totalSales |-> ReduceSum(saleList, "finalAmount", 0),
        totalClients |-> Len(clientList),
        todaySales |-> ReduceSum(Since(saleList, Today(t)), "finalAmount", 0),
        avgDailySales |-> IF getDate(t) > 0 THEN Div(monthTotal, getDate(t)) ELSE Div(0, 1),
        avgMonthlySales |-> IF getMonth(t) > 0 THEN Div(yearTotal, getMonth(t) + 1)
                            ELSE Div(yearTotal, 1),
        avgYearlySales |-> yearTotal,
        recentSales |-> RecentSales(saleList),
        topProducts |-> TopProducts(sorted)]

\* the array `sales` when calculateDashboardStats returns: Array.prototype.sort sorts
\* the array it is called on
SalesAfterStats(saleList) == SortDesc(saleList, "createdAt")

\* App: useState<DashboardStats>({...})
NoStats ==
    [totalProducts |-> 0, lowStockProducts |-> 0, totalSales |-> 0, totalClients |-> 0,
     todaySales |-> 0, avgDailySales |-> Div(0, 1), avgMonthlySales |-> Div(0, 1),
     avgYearlySales |-> 0, recentSales |-> <<>>, topProducts |-> <<>>]

\* ------------------------------------------------------------- Analytics
TimeRanges == {"7d", "30d", "90d", "1y"}

Days(range) == IF range = "7d" THEN 7 ELSE IF range = "30d" THEN 30 ELSE IF range = "90d" THEN 90 ELSE 365

\* getDateRange
StartDate(range, t) == t - Days(range) * Day

\* the start of the range left out
FilteredSalesOpen(saleList, range, t) ==
    SelectSeq(saleList, LAMBDA sale : sale.createdAt > StartDate(range, t) /\ sale.createdAt <= t)

\* `saleDate >= startDate && saleDate <= endDate`
FilteredSales(saleList, range, t) ==
    SelectSeq(saleList, LAMBDA sale : sale.createdAt >= StartDate(range, t) /\ sale.createdAt <= t)

DaysInRange(range, t) == CeilDays(t - StartDate(range, t), Day)

\* the division done whatever the number of sales
AvgSaleValueUnguarded(total, n) == Div(total, n)

\* `filteredSales.length > 0 ? totalRevenue / filteredSales.length : 0`
AvgSaleValue(total, n) == IF n > 0 THEN Div(total, n) ELSE Div(0, 1)

\* `product ? (item.unitPrice - product.unitPrice) * item.quantity : 0`
Profit(productList, item) ==
    LET i == FindIndex(productList, item.productId)
    IN IF i # 0
       THEN Times(Minus(item.unitPrice, Field(productList[i], "unitPrice")), item.quantity)
       ELSE 0

\* the Map productSales of Analytics and its ten best by revenue
ProductPerformance(productList, items) ==
    LET keys == MapKeys(items, "productId")
        profits == [i \in DOMAIN items |->
                       [productId |-> items[i].productId, profit |-> Profit(productList, items[i])]]
    IN [r \in DOMAIN keys |->
           LET mine == Having(items, "productId", keys[r])
           IN [id |-> keys[r],
               name |-> mine[Len(mine)].productName,
               quantity |-> ReduceSum(mine, "quantity", 0),
               revenue |-> ReduceSum(mine, "totalPrice", 0),
               profit |-> ReduceSum(Having(profits, "productId", keys[r]), "profit", 0)]]

\* the Map keyed by the client's name
ClientPurchasesByName(saleList) ==
    LET keys == MapKeys(saleList, "clientName")
    IN [r \in DOMAIN keys |->
           LET mine == Having(saleList, "clientName", keys[r])
           IN [id |-> mine[1].clientId,
               name |-> keys[r],
               orders |-> Len(mine),
               revenue |-> ReduceSum(mine, "finalAmount", 0),
               avgOrder |-> Div(ReduceSum(mine, "finalAmount", 0), Len(mine))]]

\* the Map clientPurchases
ClientPurchases(saleList) ==
    LET keys == MapKeys(saleList, "clientId")
    IN [r \in DOMAIN keys |->
           LET mine == Having(saleList, "clientId", keys[r])
           IN [id |-> keys[r],
               name |-> mine[Len(mine)].clientName,
               orders |-> Len(mine),
               revenue |-> ReduceSum(mine, "finalAmount", 0),
               avgOrder |-> Div(ReduceSum(mine, "finalAmount", 0), Len(mine))]]

\* the Map monthlyData
MonthlyData(saleList) ==
    LET dated == [i \in DOMAIN saleList |->
                     [month |-> MonthKey(saleList[i].createdAt),
                      finalAmount |-> saleList[i].finalAmount]]
        keys == MapKeys(dated, "month")
    IN [r \in DOMAIN keys |->
           LET mine == Having(dated, "month", keys[r])
           IN [month |-> keys[r],
               revenue |-> ReduceSum(mine, "finalAmount", 0),
               orders |-> Len(mine)]]

\* the value of the useMemo at time t
analyticsOf(saleList, productList, clientList, range, t) ==
    LET filteredSales == FilteredSales(saleList, range, t)
        totalRevenue == ReduceSum(filteredSales, "finalAmount", 0)
        avgDailyRevenue == Div(totalRevenue, DaysInRange(range, t))
    IN [totalRevenue |-> totalRevenue,
        avgSaleValue |-> AvgSaleValue(totalRevenue, Len(filteredSales)),
        avgDailyRevenue |-> avgDailyRevenue,
        avgWeeklyRevenue |-> Scaled(avgDailyRevenue, 7),
        avgMonthlyRevenue |-> Scaled(avgDailyRevenue, 30),
        avgYearlyRevenue |-> Scaled(avgDailyRevenue, 365),
        filteredSales |-> filteredSales,
        topProducts |-> Take(SortDesc(ProductPerformance(productList, AllItems(filteredSales)),
                                      "revenue"), 10),
        topClients |-> Take(SortDesc(ClientPurchases(filteredSales), "revenue"), 10),
        monthlyTrends |-> SortAsc(MonthlyData(filteredSales), "month")]

\* the figures of the four cards: the numbers whose decimal form is shown
analyticsCards(data) ==
    [totalRevenue |-> data.totalRevenue,
     avgSaleValue |-> data.avgSaleValue,
     totalOrders |-> Len(data.filteredSales),
     activeClients |-> Len(data.topClients)]

\* the Analytics page has not been shown
NoAnalytics == [filteredSales |-> <<>>, shown |-> FALSE]

\* ------------------------------------------------------------- the metrics at work
\* bounds of the collections handed to the metrics
MaxPassedSales == 6
MaxPassedProducts == 3
MaxPassedClients == 1

NoMetricsCall ==
    [fn |-> "none", n |-> 0, products |-> <<>>, sales |-> <<>>, clients |-> <<>>,
     previous |-> <<>>]

\* the record of a computation: the collections as they were handed in, the result
\* it replaces, and how many times in a row the same computation has now run
Called(s, fn, replaced) ==
    [fn |-> fn,
     n |-> IF metricsCall.fn = fn THEN metricsCall.n + 1 ELSE 1,
     products |-> products[s],
     sales |-> sales[s],
     clients |-> clients[s],
     previous |-> replaced]

\* App: the effect `setDashboardStats(calculateDashboardStats(products, sales, clients))`
updateDashboardStats(s) ==
    /\ s \in active
    /\ pc[s] = "idle"
    /\ ~ (metricsCall.fn = "dashboard" /\ metricsCall.n = 2)
    /\ dashboardStats' = calculateDashboardStats(products[s], sales[s], clients[s], now)
    /\ sales' = [sales EXCEPT ![s] = SalesAfterStats(@)]
    /\ metricsCall' = Called(s, "dashboard", dashboardStats)
    /\ UNCHANGED <<dbProducts, dbClients, dbSales, dbSaleItems, nextId, now, active,
                   products, clients, error, rejection, pc, call, budget, form, timeRange,
                   analyticsData>>

\* Analytics: the useMemo is computed
analyticsMemo(s) ==
    /\ s \in active
    /\ pc[s] = "idle"
    /\ ~ (metricsCall.fn = "analytics" /\ metricsCall.n = 2)
    /\ analyticsData' = analyticsOf(sales[s], products[s], clients[s], timeRange, now)
    /\ metricsCall' = Called(s, "analytics", analyticsData)
    /\ UNCHANGED <<hook, form, dashboardStats, timeRange>>

\* The collections the metrics are given: the first k of these sales, in the orders
\* that putting each one first or last produces. Their dates sit on the edges of the
\* periods the metrics cut by: today's midnight, the start and the end of the range.
SamplePrice(k) == IF k = 1 THEN 50 ELSE IF k % 2 = 0 THEN 10 * k ELSE k

SampleItems(k) ==
    <<[productId |-> k, productName |-> "a", quantity |-> 1 + (k % 2),
       unitPrice |-> SamplePrice(k),
       totalPrice |-> (1 + (k % 2)) * SamplePrice(k)]>>
    \o (IF k % 2 = 0
        THEN <<[productId |-> 1, productName |-> "b", quantity |-> 1, unitPrice |-> 50,
                totalPrice |-> 50]>>
        ELSE <<>>)

SampleDate(k, range, t) ==
    CASE k % 7 = 1 -> Today(t)
      [] k % 7 = 2 -> StartDate(range, t) - 1
      [] k % 7 = 3 -> StartDate(range, t)
      [] k % 7 = 4 -> t
      [] k % 7 = 5 -> t + 1
      [] k % 7 = 6 -> Today(t)
      [] OTHER -> Today(t) - 1

SampleSale(k, range, t) ==
    [id |-> k,
     clientId |-> 1 + (k % 2),
     clientName |-> IF k % 2 = 0 THEN "a" ELSE "b",
     items |-> SampleItems(k),
     totalAmount |-> ReduceSum(SampleItems(k), "totalPrice", 0),
     discount |-> (k + 1) % 2,
     finalAmount |-> ReduceSum(SampleItems(k), "totalPrice", 0) - ((k + 1) % 2),
     paymentMethod |-> "cash",
     createdAt |-> SampleDate(k, range, t)]

\* stock below, at and above the minimum
SampleProduct(k) ==
    [id |-> k, name |-> "a", batchNumber |-> "B1", currentStock |-> MinStock - 2 + k,
     minStockLevel |-> MinStock, unitPrice |-> CostPrice, sellingPrice |-> DefaultPrice]

SampleClient(k) == [id |-> k, name |-> "a", totalPurchases |-> 0, lastPurchaseDate |-> 0]

passSale(s, first) ==
    /\ s \in active
    /\ metricsCall.fn = "none"
    /\ Len(sales[s]) < MaxPassedSales
    /\ LET sale == SampleSale(Len(sales[s]) + 1, timeRange, now)
       IN sales' = [sales EXCEPT ![s] = IF first THEN <<sale>> \o @ ELSE Append(@, sale)]
    /\ UNCHANGED <<dbProducts, dbClients, dbSales, dbSaleItems, nextId, now, active,
                   products, clients, error, rejection, pc, call, budget, pages>>

passProduct(s) ==
    /\ s \in active
    /\ metricsCall.fn = "none"
    /\ Len(products[s]) < MaxPassedProducts
    /\ products' = [products EXCEPT ![s] = <<SampleProduct(Len(@) + 1)>> \o @]
    /\ UNCHANGED <<dbProducts, dbClients, dbSales, dbSaleItems, nextId, now, active,
                   clients, sales, error, rejection, pc, call, budget, pages>>

passClient(s) ==
    /\ s \in active
    /\ metricsCall.fn = "none"
    /\ Len(clients[s]) < MaxPassedClients
    /\ clients' = [clients EXCEPT ![s] = <<SampleClient(Len(@) + 1)>> \o @]
    /\ UNCHANGED <<dbProducts, dbClients, dbSales, dbSaleItems, nextId, now, active,
                   products, sales, error, rejection, pc, call, budget, pages>>

\* the pages as the app starts
PagesInit ==
    /\ FormInit
    /\ dashboardStats = NoStats
    /\ timeRange = "30d"
    /\ analyticsData = NoAnalytics
    /\ metricsCall = NoMetricsCall

\* ------------------------------------------------------------- specification
InitSessions(running) ==
    /\ dbProducts = {}
    /\ dbClients = {}
    /\ dbSales = {}
    /\ dbSaleItems = {}
    /\ nextId = [products |-> 0, clients |-> 0, sales |-> 0]
    /\ now = 1
    /\ active = running
    /\ products = [s \in Sessions |-> <<>>]
    /\ clients = [s \in Sessions |-> <<>>]
    /\ sales = [s \in Sessions |-> <<>>]
    /\ error = [s \in Sessions |-> NoError]
    /\ rejection = [s \in Sessions |-> NoRejection]
    /\ pc = [s \in Sessions |-> "idle"]
    /\ call = [s \in Sessions |-> NoCall]
    /\ budget = [ops |-> 0, faults |-> 0, refused |-> 0]
    /\ PagesInit

Init == InitSessions({1})

Next ==
    \E s \in Sessions :
        \/ \E productData \in NewProducts : addProduct(s, productData)
        \/ \E id \in Ids(products[s]), updates \in ProductEdits : updateProduct(s, id, updates)
        \/ \E id \in Ids(products[s]) : deleteProduct(s, id)
        \/ \E name \in {"a"} : addClient(s, ClientFormData(name))
        \/ \E id \in Ids(clients[s]), updates \in ClientEdits : updateClient(s, id, updates)
        \/ \E id \in Ids(clients[s]) : deleteClient(s, id)
        \/ loadAllData(s)
        \/ \E saleData \in SaleInputs(s) : addSaleCreate(s, saleData)
        \/ addSaleStock(s)
        \/ addSaleClient(s)
        \/ settle(s)

Spec == Init /\ [][Next]_vars

\* Two browser sessions on the same store. Session 1 has added product 1 and client 1;
\* session 2 then loaded the page, changed the product's price and renamed the client,
\* so that each session holds the entities as the boundary last returned them to it.
SharedProduct(price) ==
    [id |-> 1, name |-> "a", batch_number |-> "B1", current_stock |-> InitStock,
     min_stock_level |-> MinStock, unit_price |-> CostPrice, selling_price |-> price]

SharedClient(name) ==
    [id |-> 1, name |-> name, total_purchases |-> 0, last_purchase_date |-> 1]

InitTwo ==
    /\ dbProducts = {SharedProduct(3)}
    /\ dbClients = {SharedClient("b")}
    /\ dbSales = {}
    /\ dbSaleItems = {}
    /\ nextId = [products |-> 1, clients |-> 1, sales |-> 0]
    /\ now = 1
    /\ active = Sessions
    /\ products = [s \in Sessions |->
           <<mapDbToProduct(SharedProduct(IF s = 1 THEN DefaultPrice ELSE 3))>>]
    /\ clients = [s \in Sessions |-> <<mapDbToClient(SharedClient(IF s = 1 THEN "a" ELSE "b"))>>]
    /\ sales = [s \in Sessions |-> <<>>]
    /\ error = [s \in Sessions |-> NoError]
    /\ rejection = [s \in Sessions |-> NoRejection]
    /\ pc = [s \in Sessions |-> "idle"]
    /\ call = [s \in Sessions |-> NoCall]
    /\ budget = [ops |-> MaxOps - 2, faults |-> 0, refused |-> 0]
    /\ PagesInit

SpecTwo == InitTwo /\ [][Next]_vars

\* The sale form of a session that loaded the page when the store held product 1 and
\* client 1, and then added product 2.
InitForm ==
    /\ dbProducts = {SharedProduct(DefaultPrice), [SharedProduct(3) EXCEPT !.id = 2]}
    /\ dbClients = {SharedClient("a")}
    /\ dbSales = {}
    /\ dbSaleItems = {}
    /\ nextId = [products |-> 2, clients |-> 1, sales |-> 0]
    /\ now = 1
    /\ active = {1}
    /\ products = [s \in Sessions |->
           IF s = 1
           THEN <<mapDbToProduct([SharedProduct(3) EXCEPT !.id = 2])>>
                    \o OrderDesc({SharedProduct(DefaultPrice)})
           ELSE <<>>]
    /\ clients = [s \in Sessions |-> IF s = 1 THEN OrderDesc({SharedClient("a")}) ELSE <<>>]
    /\ sales = [s \in Sessions |-> <<>>]
    /\ error = [s \in Sessions |-> NoError]
    /\ rejection = [s \in Sessions |-> NoRejection]
    /\ pc = [s \in Sessions |-> "idle"]
    /\ call = [s \in Sessions |-> NoCall]
    /\ budget = [ops |-> 0, faults |-> 0, refused |-> 0]
    /\ PagesInit

NextForm ==
    \/ openForm
    \/ closeForm
    \/ \E value \in 0..MaxClients : setSelectedClient(value)
    \/ \E value \in FormDiscounts : setDiscount(value)
    \/ addSaleItem
    \/ \E s \in Sessions, index \in 1..MaxItems, value \in 0..MaxProducts :
           updateSaleItem(s, index, "productId", value)
    \/ \E s \in Sessions, index \in 1..MaxItems, value \in FormQuantities :
           updateSaleItem(s, index, "quantity", value)
    \/ \E s \in Sessions, index \in 1..MaxItems, value \in FormPrices :
           updateSaleItem(s, index, "unitPrice", value)
    \/ \E index \in 1..MaxItems : removeSaleItem(index)
    \/ \E s \in Sessions : handleSubmit(s)

SpecForm == InitForm /\ [][NextForm]_vars

\* The metrics as functions of what they are given: the collections are put together
\* first, then the dashboard summary and the analytics are computed on them.
Clocks == {YearLength + (DaysBefore(2) + 9) * Day + 15, 2 * YearLength + 15}

InitMetrics ==
    /\ dbProducts = {}
    /\ dbClients = {}
    /\ dbSales = {}
    /\ dbSaleItems = {}
    /\ nextId = [products |-> 0, clients |-> 0, sales |-> 0]
    /\ now \in Clocks
    /\ active = {1}
    /\ products = [s \in Sessions |-> <<>>]
    /\ clients = [s \in Sessions |-> <<>>]
    /\ sales = [s \in Sessions |-> <<>>]
    /\ error = [s \in Sessions |-> NoError]
    /\ rejection = [s \in Sessions |-> NoRejection]
    /\ pc = [s \in Sessions |-> "idle"]
    /\ call = [s \in Sessions |-> NoCall]
    /\ budget = [ops |-> 0, faults |-> 0, refused |-> 0]
    /\ FormInit
    /\ dashboardStats = NoStats
    /\ timeRange \in TimeRanges
    /\ analyticsData = NoAnalytics
    /\ metricsCall = NoMetricsCall

NextMetrics ==
    \E s \in Sessions :
        \/ \E first \in BOOLEAN : passSale(s, first)
        \/ passProduct(s)
        \/ passClient(s)
        \/ updateDashboardStats(s)
        \/ analyticsMemo(s)

SpecMetrics == InitMetrics /\ [][NextMetrics]_vars

\* Analytics over many clients and products. The session has loaded the page when the
\* store held products 1 and 2, then edited product 1 and added product 3: product 2
\* is as the list-all returned it; the products of the other items are gone. Order k
\* is one of client k for product k, or one more of client 1 for product 1.
MaxOrders == 13

StoredProduct(k) == ProductInsert(k, CHOOSE p \in NewProducts : TRUE)

SampleOrderItems(k, own) ==
    <<[productId |-> IF own THEN k ELSE 1, productName |-> "a", quantity |-> 1 + (k % 2),
       unitPrice |-> 2 + (k % 3),
       totalPrice |-> (1 + (k % 2)) * (2 + (k % 3))]>>
    \o (IF k % 4 = 2
        THEN <<[productId |-> 2, productName |-> "a", quantity |-> 1, unitPrice |-> 3,
                totalPrice |-> 3]>>
        ELSE <<>>)

\* every seventh order is older than the period
SampleOrder(k, own, range, t) ==
    [id |-> k,
     clientId |-> IF own THEN k ELSE 1,
     clientName |-> "a",
     items |-> SampleOrderItems(k, own),
     totalAmount |-> ReduceSum(SampleOrderItems(k, own), "totalPrice", 0),
     discount |-> 0,
     finalAmount |-> ReduceSum(SampleOrderItems(k, own), "totalPrice", 0),
     paymentMethod |-> "cash",
     createdAt |-> IF k % 7 = 0 THEN StartDate(range, t) - 1 ELSE t - k]

passOrder(s, own) ==
    /\ s \in active
    /\ metricsCall.fn = "none"
    /\ Len(sales[s]) < MaxOrders
    /\ sales' = [sales EXCEPT ![s] = Append(@, SampleOrder(Len(@) + 1, own, timeRange, now))]
    /\ UNCHANGED <<dbProducts, dbClients, dbSales, dbSaleItems, nextId, now, active,
                   products, clients, error, rejection, pc, call, budget, pages>>

InitCrowd ==
    /\ dbProducts = {StoredProduct(1), StoredProduct(2), StoredProduct(3)}
    /\ dbClients = {}
    /\ dbSales = {}
    /\ dbSaleItems = {}
    /\ nextId = [products |-> 3, clients |-> 0, sales |-> 0]
    /\ now \in {t \in Clocks : getMonth(t) = 2}
    /\ active = {1}
    /\ products = [s \in Sessions |->
                      IF s = 1
                      THEN <<mapDbToProduct(StoredProduct(3)), StoredProduct(2),
                             mapDbToProduct(StoredProduct(1))>>
                      ELSE <<>>]
    /\ clients = [s \in Sessions |-> <<>>]
    /\ sales = [s \in Sessions |-> <<>>]
    /\ error = [s \in Sessions |-> NoError]
    /\ rejection = [s \in Sessions |-> NoRejection]
    /\ pc = [s \in Sessions |-> "idle"]
    /\ call = [s \in Sessions |-> NoCall]
    /\ budget = [ops |-> 0, faults |-> 0, refused |-> 0]
    /\ FormInit
    /\ dashboardStats = NoStats
    /\ timeRange = "30d"
    /\ analyticsData = NoAnalytics
    /\ metricsCall = NoMetricsCall

NextCrowd ==
    \E s \in Sessions :
        \/ \E own \in BOOLEAN : passOrder(s, own)
        \/ analyticsMemo(s)

SpecCrowd == InitCrowd /\ [][NextCrowd]_vars

\* ------------------------------------------------------------- claims
Items(c) == c.saleData.items

Found(c, j) == FindIndex(c.products, Items(c)[j].productId) # 0

ClientFound(c) == FindIndex(c.clients, c.saleData.clientId) # 0

\* the items among 1..n that name product id
Naming(c, id, n) == {j \in 1..n : j <= Len(Items(c)) /\ Items(c)[j].productId = id}

RECURSIVE QuantitySold(_, _)
QuantitySold(items, id) ==
    IF items = <<>> THEN 0
    ELSE (IF Head(items).productId = id THEN Head(items).quantity ELSE 0)
         + QuantitySold(Tail(items), id)

Last(S) == CHOOSE j \in S : \A o \in S : o <= j

\* C1: after addSale resolves, every product of the in-memory collection has its
\* currentStock before the call minus the total quantity of the items naming it, and
\* a product no item names is unchanged
C1_StockFallsByQuantitySold ==
    \A s \in active :
        pc[s] = "resolved" =>
            \A i \in DOMAIN products[s] :
                LET p == products[s][i]
                    j == FindIndex(call[s].products, p.id)
                    sold == QuantitySold(Items(call[s]), p.id)
                IN j # 0 =>
                       IF sold = 0
                       THEN p = call[s].products[j]
                       ELSE Field(p, "currentStock")
                                = Minus(Field(call[s].products[j], "currentStock"), sold)

\* C2: after addSale resolves for a client the session holds, that client's
\* totalPurchases is its value before the call plus finalAmount, its
\* lastPurchaseDate is the persisted sale's createdAt, and every other client is as before
C2_ClientTotalsAfterSale ==
    \A s \in active :
        LET c == call[s]
            j == FindIndex(c.clients, c.saleData.clientId)
        IN (pc[s] = "resolved" /\ ClientFound(c)) =>
               /\ Len(clients[s]) = Len(c.clients)
               /\ \A i \in DOMAIN clients[s] :
                      IF i = j
                      THEN /\ clients[s][i].id = c.saleData.clientId
                           /\ IsNumber(Field(clients[s][i], "totalPurchases"))
                           /\ Field(clients[s][i], "totalPurchases")
                                  = Plus(Field(c.clients[j], "totalPurchases"),
                                         c.saleData.finalAmount)
                           /\ Field(clients[s][i], "lastPurchaseDate") = c.newSale.createdAt
                           /\ \E r \in dbSales :
                                  r.id = c.newSale.id /\ r.created_at = c.newSale.createdAt
                      ELSE clients[s][i] = c.clients[i]

C2_Witness ==
    \E s \in active :
        /\ pc[s] = "resolved"
        /\ ClientFound(call[s])
        /\ Len(clients[s]) = 2
        /\ call[s].saleData.finalAmount > 0
        /\ call[s].saleData.finalAmount # call[s].saleData.totalAmount

SalesOf(s, clientId) == SelectSeq(sales[s], LAMBDA sl : sl.clientId = clientId)

\* C3: in a session in which every store call has succeeded, every client's
\* totalPurchases is the sum of finalAmount over that client's sales
C3_TotalsMatchSaleHistory ==
    \A s \in active :
        (pc[s] = "idle" /\ budget.faults = 0 /\ budget.refused = 0) =>
            \A i \in DOMAIN clients[s] :
                "totalPurchases" \in DOMAIN clients[s][i] =>
                    clients[s][i].totalPurchases
                        = SumOver(SalesOf(s, clients[s][i].id), "finalAmount")

\* C4: when persisting the sale fails, at the sale row or at the item rows, the store
\* holds no row of that sale, the in-memory collections are as before the call and no
\* stock or client update was issued
C4_FailedCreateLeavesNothing ==
    \A s \in active :
        (pc[s] = "rejected" /\ call[s].failedAt \in {"sale", "items"}) =>
            LET c == call[s]
                id == c.log[1].id
            IN /\ ~ \E r \in dbSales : r.id = id
               /\ ~ \E r \in dbSaleItems : r.sale_id = id
               /\ products[s] = c.products
               /\ clients[s] = c.clients
               /\ \A i \in DOMAIN sales[s] : sales[s][i].id # id
               /\ \A i \in DOMAIN c.log : c.log[i].op \notin {"updateProduct", "updateClient"}

\* the store calls addSale has issued when the sale is persisted and items 1..n are done
RECURSIVE StockCalls(_, _, _)
StockCalls(c, j, n) ==
    IF j > n THEN <<>>
    ELSE (IF Found(c, j)
          THEN <<[op |-> "updateProduct", id |-> Items(c)[j].productId, ok |-> TRUE]>>
          ELSE <<>>) \o StockCalls(c, j + 1, n)

CallsThrough(c, n) ==
    <<[op |-> "insertSale", id |-> c.newSale.id, ok |-> TRUE],
      [op |-> "insertItems", id |-> c.newSale.id, ok |-> TRUE]>> \o StockCalls(c, 1, n)

\* the stock updates of items 1..n are in place, in the store and in the session
StockApplied(s, c, n) ==
    \A i \in DOMAIN c.products :
        LET id == c.products[i].id
            named == Naming(c, id, n)
        IN IF named = {}
           THEN products[s][i] = c.products[i]
           ELSE LET stock == Minus(Field(c.products[i], "currentStock"),
                                   Items(c)[Last(named)].quantity)
                IN /\ IsNumber(stock)
                   /\ Field(products[s][i], "currentStock") = stock
                   /\ \E r \in dbProducts : r.id = id /\ r.current_stock = stock

SalePersisted(s, c) ==
    /\ \E r \in dbSales : r.id = c.newSale.id
    /\ sales[s] # <<>>
    /\ sales[s][1] = c.newSale

\* C5: when the stock update of item k fails, the sale stays in the store and in the
\* session, the updates of items 1..k-1 stay applied and nothing further is issued;
\* when the client update fails, every stock update stays applied
C5_NothingRolledBack ==
    \A s \in active :
        LET c == call[s]
        IN /\ (pc[s] = "rejected" /\ c.failedAt = "stock") =>
                  /\ SalePersisted(s, c)
                  /\ Found(c, c.k)
                  /\ c.log = CallsThrough(c, c.k - 1)
                                 \o <<[op |-> "updateProduct", id |-> Items(c)[c.k].productId,
                                       ok |-> FALSE]>>
                  /\ StockApplied(s, c, c.k - 1)
                  /\ clients[s] = c.clients
           /\ (pc[s] = "rejected" /\ c.failedAt = "client") =>
                  /\ SalePersisted(s, c)
                  /\ c.log = CallsThrough(c, Len(Items(c)))
                                 \o <<[op |-> "updateClient", id |-> c.saleData.clientId,
                                       ok |-> FALSE]>>
                  /\ StockApplied(s, c, Len(Items(c)))
                  /\ clients[s] = c.clients

C5_Witness ==
    \E s \in active :
        /\ pc[s] = "rejected"
        /\ call[s].failedAt = "stock"
        /\ call[s].k = 2
        /\ Found(call[s], 1)

\* what a list-all of sales would return for the row of sale id, its items included
StoredSale(id) == MapSale(RowOf(dbSales, id), dbSaleItems)

StillStocked(item) == \E p \in dbProducts : p.id = item.productId

SameStockSold(id) ==
    LET i1 == FindIndex(call[1].products, id)
        i2 == FindIndex(call[2].products, id)
    IN /\ i1 # 0 /\ i2 # 0
       /\ IsNumber(Field(call[1].products[i1], "currentStock"))
       /\ Field(call[1].products[i1], "currentStock") = Field(call[2].products[i2], "currentStock")
       /\ Naming(call[1], id, MaxItems) # {}
       /\ Naming(call[2], id, MaxItems) # {}

\* both sessions hold the client of both sales with the same totalPurchases
SameClientSold ==
    LET id == call[1].saleData.clientId
        i1 == FindIndex(call[1].clients, id)
        i2 == FindIndex(call[2].clients, id)
    IN /\ call[2].saleData.clientId = id
       /\ i1 # 0 /\ i2 # 0
       /\ IsNumber(Field(call[1].clients[i1], "totalPurchases"))
       /\ Field(call[1].clients[i1], "totalPurchases") = Field(call[2].clients[i2], "totalPurchases")

\* C7: when two sessions holding the same snapshot have both sold the same product (or
\* to the same client) and both calls have resolved, the store's currentStock (or
\* totalPurchases) reflects one sale only: it is not initial - q1 - q2 (initial + f1 + f2)
C7_LostUpdate ==
    (pc[1] = "resolved" /\ pc[2] = "resolved") =>
        /\ \A id \in 1..MaxProducts :
               SameStockSold(id) =>
                   LET held == call[1].products[FindIndex(call[1].products, id)].currentStock
                       q1 == Items(call[1])[Last(Naming(call[1], id, MaxItems))].quantity
                       q2 == Items(call[2])[Last(Naming(call[2], id, MaxItems))].quantity
                       stock == RowOf(dbProducts, id).current_stock
                   IN /\ stock \in {held - q1, held - q2}
                      /\ stock # held - QuantitySold(Items(call[1]), id)
                                      - QuantitySold(Items(call[2]), id)
        /\ SameClientSold =>
               LET id == call[1].saleData.clientId
                   held == call[1].clients[FindIndex(call[1].clients, id)].totalPurchases
                   f1 == call[1].saleData.finalAmount
                   f2 == call[2].saleData.finalAmount
                   total == RowOf(dbClients, id).total_purchases
               IN /\ total \in {held + f1, held + f2}
                  /\ total # held + f1 + f2

C7_Witness ==
    /\ pc[1] = "resolved"
    /\ pc[2] = "resolved"
    /\ SameStockSold(1)
    /\ SameClientSold
    /\ RowOf(dbProducts, 1).current_stock
           # InitStock - QuantitySold(Items(call[1]), 1) - QuantitySold(Items(call[2]), 1)
    /\ RowOf(dbClients, 1).total_purchases
           # call[1].saleData.finalAmount + call[2].saleData.finalAmount

\* C8: every product and client the boundary returns, from list-all as from create and
\* update, carries the row's columns under the in-core field names
C8_BoundaryReturnsEntities ==
    /\ \A r \in dbProducts :
           /\ mapDbToProduct(r).currentStock = r.current_stock
           /\ mapDbToProduct(r).minStockLevel = r.min_stock_level
    /\ \A r \in dbClients : mapDbToClient(r).totalPurchases = r.total_purchases
    /\ \A i \in DOMAIN productGetAll :
           LET r == RowOf(dbProducts, productGetAll[i].id)
           IN /\ Field(productGetAll[i], "currentStock") = r.current_stock
              /\ Field(productGetAll[i], "minStockLevel") = r.min_stock_level
              /\ Field(productGetAll[i], "unitPrice") = r.unit_price
              /\ Field(productGetAll[i], "sellingPrice") = r.selling_price
    /\ \A i \in DOMAIN clientGetAll :
           LET r == RowOf(dbClients, clientGetAll[i].id)
           IN /\ Field(clientGetAll[i], "totalPurchases") = r.total_purchases
              /\ Field(clientGetAll[i], "lastPurchaseDate") = r.last_purchase_date

DeletesProduct ==
    \E s \in Sessions, id \in 1..MaxProducts :
        deleteProduct(s, id) /\ budget'.faults = budget.faults

\* C9: a deleteProduct that succeeds leaves the items of every sale as they were, in
\* the session and in what a list-all of sales returns
C9_DeleteProductKeepsSaleItems ==
    [][DeletesProduct => (sales' = sales /\ salesGetAll' = salesGetAll)]_vars

EditsEntity ==
    \E s \in Sessions :
        \/ \E id \in 1..MaxProducts, updates \in ProductEdits : updateProduct(s, id, updates)
        \/ \E id \in 1..MaxClients, updates \in ClientEdits : updateClient(s, id, updates)

\* C10: updateClient and updateProduct leave every existing sale as it is, in the
\* session and in what a list-all of sales returns: clientName, productName, unitPrice
\* and totalPrice keep the values copied when the sale was made
C10_EditsKeepSales ==
    [][EditsEntity => (sales' = sales /\ salesGetAll' = salesGetAll)]_vars

C10_Witness ==
    \E s \in active, i \in DOMAIN salesGetAll :
        /\ pc[s] = "idle"
        /\ sales[s] # <<>>
        /\ \E r \in dbClients : r.id = salesGetAll[i].clientId /\ r.name # salesGetAll[i].clientName
        /\ \E j \in DOMAIN sales[s] :
               /\ sales[s][j] = salesGetAll[i]
               /\ \E k \in DOMAIN clients[s] :
                      /\ clients[s][k].id = sales[s][j].clientId
                      /\ clients[s][k].name # sales[s][j].clientName

DeletesClient(s, id) == deleteClient(s, id) /\ budget'.faults = budget.faults

\* C11: a deleteClient(id) that succeeds leaves no client with that id and no sale of
\* that client, in the session or in the store; every other client and sale and every
\* product, stock included, stays as it was
C11_DeleteClientTakesItsSales ==
    [][\A s \in Sessions, id \in 1..MaxClients :
           DeletesClient(s, id) =>
               /\ dbClients' = {r \in dbClients : r.id # id}
               /\ dbSales' = {r \in dbSales : r.client_id # id}
               /\ clients'[s] = SelectSeq(clients[s], LAMBDA c : c.id # id)
               /\ sales'[s] = SelectSeq(sales[s], LAMBDA sl : sl.clientId # id)
               /\ salesGetAll' = SelectSeq(salesGetAll, LAMBDA sl : sl.clientId # id)
               /\ ~ \E r \in dbClients' : r.id = id
               /\ ~ \E r \in dbSales' : r.client_id = id
               /\ ~ \E i \in DOMAIN clients'[s] : clients'[s][i].id = id
               /\ ~ \E i \in DOMAIN sales'[s] : sales'[s][i].clientId = id
               /\ dbProducts' = dbProducts
               /\ products' = products]_vars

C11_Witness ==
    \E s \in active :
        /\ pc[s] = "idle"
        /\ nextId.clients > 0 /\ dbClients = {} /\ clients[s] = <<>>
        /\ nextId.sales > 0 /\ dbSales = {} /\ sales[s] = <<>>
        /\ \E r \in dbProducts : r.current_stock < InitStock
        /\ \E i \in DOMAIN products[s] : LessEq(Field(products[s][i], "currentStock"), InitStock - 1)

AddsUp(item) ==
    /\ IsNumber(item.quantity)
    /\ IsNumber(item.unitPrice)
    /\ IsNumber(item.totalPrice)
    /\ item.totalPrice = item.quantity * item.unitPrice

\* C12: every item of the sale form has totalPrice = quantity x unitPrice, and the sale
\* the form submits has totalAmount = the sum of its items' totalPrice and
\* finalAmount = totalAmount - discount
C12_SubmittedSaleAddsUp ==
    /\ \A i \in DOMAIN saleItems : AddsUp(saleItems[i])
    /\ submitted.clientId # 0 =>
           /\ \A i \in DOMAIN submitted.items : AddsUp(submitted.items[i])
           /\ IsNumber(submitted.totalAmount)
           /\ submitted.totalAmount = SumOver(submitted.items, "totalPrice")
           /\ IsNumber(submitted.finalAmount)
           /\ submitted.finalAmount = submitted.totalAmount - submitted.discount

Range(seq) == {seq[i] : i \in DOMAIN seq}

Least(a, b) == IF a < b THEN a ELSE b

\* C13: the dashboard's lowStockProducts is the number of products given with
\* currentStock <= minStockLevel, 0 for no products; totalProducts and totalClients
\* are the lengths of the lists given
C13_LowStockCount ==
    metricsCall.fn = "dashboard" =>
        LET given == metricsCall.products
        IN /\ dashboardStats.lowStockProducts
                  = Cardinality({i \in DOMAIN given :
                                    given[i].currentStock <= given[i].minStockLevel})
           /\ (given = <<>> => dashboardStats.lowStockProducts = 0)
           /\ dashboardStats.totalProducts = Len(given)
           /\ dashboardStats.totalClients = Len(metricsCall.clients)

C13_Witness ==
    /\ metricsCall.fn = "dashboard"
    /\ Len(metricsCall.products) = 3
    /\ dashboardStats.lowStockProducts = 2
    /\ \E i \in DOMAIN metricsCall.products :
           metricsCall.products[i].currentStock = metricsCall.products[i].minStockLevel
    /\ dashboardStats.totalClients = 1

\* C14: the dashboard's totalSales is the sum of finalAmount over the sales given,
\* whatever their order and dates; todaySales is the sum over the sales with
\* createdAt >= today's local midnight; one sale of 100 made today gives 100 for both
C14_SalesTotals ==
    metricsCall.fn = "dashboard" =>
        LET given == metricsCall.sales
            midnight == now - (now % Day)
        IN /\ dashboardStats.totalSales = SumOver(given, "finalAmount")
           /\ dashboardStats.todaySales
                  = SumOver(SelectSeq(given, LAMBDA sl : sl.createdAt >= midnight), "finalAmount")
           /\ (Len(given) = 1 /\ given[1].finalAmount = 100 /\ given[1].createdAt >= midnight) =>
                  (dashboardStats.todaySales = 100 /\ dashboardStats.totalSales = 100)

C14_Witness ==
    /\ metricsCall.fn = "dashboard"
    /\ Len(metricsCall.sales) > 3
    /\ metricsCall.sales # sales[1]
    /\ \E i \in DOMAIN metricsCall.sales : metricsCall.sales[i].createdAt = now - (now % Day)
    /\ dashboardStats.todaySales > 0
    /\ dashboardStats.todaySales < dashboardStats.totalSales

\* C15: recentSales holds min(5, n) of the n sales given, each once, ordered by
\* createdAt descending, and no sale left out is later than one returned
C15_RecentSales ==
    metricsCall.fn = "dashboard" =>
        LET given == metricsCall.sales
            recent == dashboardStats.recentSales
        IN /\ Len(recent) = Least(5, Len(given))
           /\ Range(recent) \subseteq Range(given)
           /\ Cardinality(Range(recent)) = Len(recent)
           /\ \A i, j \in DOMAIN recent : i < j => recent[i].createdAt >= recent[j].createdAt
           /\ \A out \in Range(given) \ Range(recent), i \in DOMAIN recent :
                  out.createdAt <= recent[i].createdAt

C15_Witness ==
    /\ metricsCall.fn = "dashboard"
    /\ Len(metricsCall.sales) > 5
    /\ Len(dashboardStats.recentSales) = 5
    /\ metricsCall.sales[1].createdAt < metricsCall.sales[Len(metricsCall.sales)].createdAt

RECURSIVE Revenue(_, _)
Revenue(items, id) ==
    IF items = <<>> THEN 0
    ELSE (IF Head(items).productId = id THEN Head(items).totalPrice ELSE 0)
         + Revenue(Tail(items), id)

\* C16: topProducts has at most 5 entries, one per productId, each with the summed
\* quantity and totalPrice of that product's items over all sales; it is ordered by
\* quantitySold non-increasing, no product left out sold more than one returned, and
\* the quantities returned sum to at most the quantity of all items
C16_TopProducts ==
    metricsCall.fn = "dashboard" =>
        LET items == AllItems(metricsCall.sales)
            sold == {items[i].productId : i \in DOMAIN items}
            top == dashboardStats.topProducts
            named == {top[i].productId : i \in DOMAIN top}
        IN /\ Len(top) <= 5
           /\ Cardinality(named) = Len(top)
           /\ named \subseteq sold
           /\ \A i \in DOMAIN top :
                  /\ top[i].quantitySold = QuantitySold(items, top[i].productId)
                  /\ top[i].revenue = Revenue(items, top[i].productId)
           /\ \A i, j \in DOMAIN top : i < j => top[i].quantitySold >= top[j].quantitySold
           /\ \A id \in sold \ named, i \in DOMAIN top :
                  QuantitySold(items, id) <= top[i].quantitySold
           /\ SumOver(top, "quantitySold") <= SumOver(items, "quantity")

C16_Witness ==
    /\ metricsCall.fn = "dashboard"
    /\ Len(AllItems(metricsCall.sales)) > 6
    /\ Len(dashboardStats.topProducts) = 5
    /\ dashboardStats.topProducts[1].quantitySold > 3
    /\ SumOver(dashboardStats.topProducts, "quantitySold")
           < SumOver(AllItems(metricsCall.sales), "quantity")

\* C17: when the dashboard summary or the analytics have been computed, the product,
\* sale and client collections handed in hold the same elements in the same order as
\* before the call
C17_MetricsLeaveInputsAlone ==
    \A s \in active :
        metricsCall.fn # "none" =>
            /\ products[s] = metricsCall.products
            /\ sales[s] = metricsCall.sales
            /\ clients[s] = metricsCall.clients

IsZero(q) == q.num = 0 /\ q.den = 1

\* C19: on empty collections the dashboard summary is 0 in every numeric field with
\* empty recentSales and topProducts, and the analytics, for every period, are 0 in
\* totalRevenue, avgSaleValue and the four averages with empty lists of top products,
\* top clients and monthly trends; no division by zero is made
C19_EmptyInputsGiveZeros ==
    (metricsCall.products = <<>> /\ metricsCall.sales = <<>> /\ metricsCall.clients = <<>>) =>
        /\ metricsCall.fn = "dashboard" =>
               /\ dashboardStats.totalProducts = 0
               /\ dashboardStats.lowStockProducts = 0
               /\ dashboardStats.totalSales = 0
               /\ dashboardStats.totalClients = 0
               /\ dashboardStats.todaySales = 0
               /\ IsZero(dashboardStats.avgDailySales)
               /\ IsZero(dashboardStats.avgMonthlySales)
               /\ dashboardStats.avgYearlySales = 0
               /\ dashboardStats.recentSales = <<>>
               /\ dashboardStats.topProducts = <<>>
        /\ metricsCall.fn = "analytics" =>
               /\ analyticsData.totalRevenue = 0
               /\ IsZero(analyticsData.avgSaleValue)
               /\ IsZero(analyticsData.avgDailyRevenue)
               /\ IsZero(analyticsData.avgWeeklyRevenue)
               /\ IsZero(analyticsData.avgMonthlyRevenue)
               /\ IsZero(analyticsData.avgYearlyRevenue)
               /\ analyticsData.topProducts = <<>>
               /\ analyticsData.topClients = <<>>
               /\ analyticsData.monthlyTrends = <<>>

C19_Witness ==
    /\ metricsCall.fn = "analytics"
    /\ metricsCall.products = <<>> /\ metricsCall.sales = <<>> /\ metricsCall.clients = <<>>
    /\ metricsCall.previous = NoAnalytics
    /\ timeRange = "1y"
    /\ analyticsData.totalRevenue = 0

PeriodDays == [r \in TimeRanges |-> CASE r = "7d" -> 7 [] r = "30d" -> 30 [] r = "90d" -> 90 [] OTHER -> 365]

\* C20: for each period P of 7, 30, 90 and 365 days the analytics keep exactly the
\* sales with now - P days <= createdAt <= now, totalRevenue is the sum of their
\* finalAmount, daysInRange is P, avgDailyRevenue is totalRevenue / P, and the weekly,
\* monthly and yearly averages are 7, 30 and 365 times avgDailyRevenue
C20_PeriodAverages ==
    metricsCall.fn = "analytics" =>
        LET P == PeriodDays[timeRange]
            kept == SelectSeq(metricsCall.sales,
                              LAMBDA sl : now - P * Day <= sl.createdAt /\ sl.createdAt <= now)
            daily == analyticsData.avgDailyRevenue
            TimesDaily(q, k) == IsNumber(q.num) /\ q.num * daily.den = k * daily.num * q.den
        IN /\ analyticsData.filteredSales = kept
           /\ analyticsData.totalRevenue = SumOver(kept, "finalAmount")
           /\ DaysInRange(timeRange, now) = P
           /\ IsNumber(daily.num)
           /\ daily.num * P = analyticsData.totalRevenue * daily.den
           /\ TimesDaily(analyticsData.avgWeeklyRevenue, 7)
           /\ TimesDaily(analyticsData.avgMonthlyRevenue, 30)
           /\ TimesDaily(analyticsData.avgYearlyRevenue, 365)

C20_Witness ==
    /\ metricsCall.fn = "analytics"
    /\ timeRange = "90d"
    /\ Len(metricsCall.sales) > 4
    /\ Len(analyticsData.filteredSales) = Len(metricsCall.sales) - 2
    /\ \E i \in DOMAIN analyticsData.filteredSales :
           analyticsData.filteredSales[i].createdAt = now - 90 * Day
    /\ \E i \in DOMAIN analyticsData.filteredSales : analyticsData.filteredSales[i].createdAt = now
    /\ analyticsData.avgDailyRevenue.den > 1

\* the stock updates addSale has issued so far, in the order of issue
StockLog(c) == SelectSeq(c.log, LAMBDA e : e.op = "updateProduct")

\* the items of the sale whose product the lookup finds, in item-list order
FoundItems(c) == SelectSeq(Items(c), LAMBDA item : FindIndex(c.products, item.productId) # 0)

\* C21: addSale persists the sale and its items first and puts the persisted sale at
\* the head of the session's sales, then issues one stock update per found item in
\* item-list order, each call completing before the next is issued, then the client
\* update after every stock update, and returns the persisted sale with its id,
\* createdAt and the original items; no stock or client update comes before the sale
\* is persisted
C21_EffectsInOrder ==
    \A s \in active :
        LET c == call[s]
            log == c.log
            stock == StockLog(c)
            found == FoundItems(c)
        IN pc[s] # "idle" =>
               /\ \A i \in DOMAIN log :
                      /\ log[i].op = "insertSale" <=> i = 1
                      /\ log[i].op = "insertItems" <=> i = 2
                      /\ i < Len(log) => log[i].ok
                      /\ log[i].op \in {"updateProduct", "updateClient"} =>
                             /\ log[1].ok /\ log[2].ok
                             /\ \E r \in dbSales : r.id = c.newSale.id
                             /\ \E r \in dbSaleItems : r.sale_id = c.newSale.id
                             /\ sales[s] # <<>>
                             /\ sales[s][1] = c.newSale
                      /\ log[i].op = "updateClient" =>
                             /\ i = Len(log)
                             /\ Len(stock) = Len(found)
                             /\ \A j \in DOMAIN stock : stock[j].ok
               /\ Len(stock) <= Len(found)
               /\ \A j \in DOMAIN stock : stock[j].id = found[j].productId
               /\ pc[s] = "resolved" =>
                      /\ Len(stock) = Len(found)
                      /\ ClientFound(c) => log[Len(log)].op = "updateClient"
                      /\ \E r \in dbSales :
                             /\ r.id = c.newSale.id
                             /\ r.created_at = c.newSale.createdAt
                      /\ c.newSale.items = c.saleData.items

C21_Witness ==
    \E s \in active :
        /\ pc[s] = "resolved"
        /\ Len(Items(call[s])) = 2
        /\ Items(call[s])[1].productId # Items(call[s])[2].productId
        /\ Len(StockLog(call[s])) = 2
        /\ call[s].log[Len(call[s].log)].op = "updateClient"

\* C22: with Y the sum of finalAmount over the sales created on or after 1 January of
\* the current year and m the zero-based current month, avgMonthlySales is Y / (m + 1)
\* for m in 1..11 and Y itself for m = 0, avgYearlySales is Y, and avgDailySales is the
\* sum over the sales created on or after the first of the current month divided by
\* the current day of the month
C22_DashboardAverages ==
    metricsCall.fn = "dashboard" =>
        LET given == metricsCall.sales
            m == getMonth(now)
            january == getFullYear(now) * YearLength
            firstOfMonth == january + DaysBefore(m) * Day
            Y == SumOver(SelectSeq(given, LAMBDA sl : sl.createdAt >= january), "finalAmount")
            M == SumOver(SelectSeq(given, LAMBDA sl : sl.createdAt >= firstOfMonth),
                         "finalAmount")
            monthly == dashboardStats.avgMonthlySales
            daily == dashboardStats.avgDailySales
        IN /\ IsNumber(monthly.num) /\ IsNumber(daily.num)
           /\ m \in 1..11 => monthly.num * (m + 1) = Y * monthly.den
           /\ m = 0 => (monthly.num = Y /\ monthly.den = 1)
           /\ dashboardStats.avgYearlySales = Y
           /\ daily.num * getDate(now) = M * daily.den

C22_Witness ==
    /\ metricsCall.fn = "dashboard"
    /\ getMonth(now) = 2
    /\ getDate(now) = 10
    /\ dashboardStats.avgYearlySales > 0
    /\ dashboardStats.avgMonthlySales.den = 3
    /\ dashboardStats.avgDailySales.num > 0
    /\ dashboardStats.avgDailySales.num * 10
           < dashboardStats.avgYearlySales * dashboardStats.avgDailySales.den

\* the first of January, with nothing sold yet this year but a sale from last year
C22_WitnessJanuary ==
    /\ metricsCall.fn = "dashboard"
    /\ getMonth(now) = 0
    /\ dashboardStats.avgYearlySales > 0
    /\ dashboardStats.avgMonthlySales.num = dashboardStats.avgYearlySales
    /\ dashboardStats.avgYearlySales < dashboardStats.totalSales

\* the sales of the given list created inside the selected period
InPeriod(given) ==
    SelectSeq(given, LAMBDA sl : now - PeriodDays[timeRange] * Day <= sl.createdAt
                                 /\ sl.createdAt <= now)

\* (item.unitPrice - the product's unitPrice) x quantity, 0 for a product not listed
MarginOf(productList, item) ==
    IF \E i \in DOMAIN productList : productList[i].id = item.productId
    THEN LET p == productList[CHOOSE i \in DOMAIN productList :
                                  productList[i].id = item.productId]
         IN IF IsNumber(Field(p, "unitPrice"))
            THEN (item.unitPrice - p.unitPrice) * item.quantity
            ELSE NaN
    ELSE 0

\* C23: the per-product list has one entry per product id among the items of the
\* filtered sales, with quantity the sum of the items' quantity, revenue the sum of
\* their totalPrice and profit the sum of (item.unitPrice - the current product's
\* unitPrice) x quantity over the items whose product is listed, an item of an absent
\* product adding 0; it is ordered by revenue, non-increasing, and keeps the ten best
C23_ProductPerformance ==
    metricsCall.fn = "analytics" =>
        LET items == AllItems(InPeriod(metricsCall.sales))
            ids == {items[i].productId : i \in DOMAIN items}
            top == analyticsData.topProducts
            sold(id) == SelectSeq(items, LAMBDA item : item.productId = id)
            margins(id) == [i \in DOMAIN sold(id) |->
                               [margin |-> MarginOf(metricsCall.products, sold(id)[i])]]
        IN /\ Len(top) = Least(10, Cardinality(ids))
           /\ \A i, j \in DOMAIN top : top[i].id = top[j].id => i = j
           /\ \A i, j \in DOMAIN top : i < j => top[i].revenue >= top[j].revenue
           /\ \A id \in ids \ {top[i].id : i \in DOMAIN top} :
                  \A i \in DOMAIN top : SumOver(sold(id), "totalPrice") <= top[i].revenue
           /\ \A i \in DOMAIN top :
                  /\ top[i].id \in ids
                  /\ top[i].quantity = SumOver(sold(top[i].id), "quantity")
                  /\ top[i].revenue = SumOver(sold(top[i].id), "totalPrice")
                  /\ IsNumber(top[i].profit)
                  /\ \A k \in DOMAIN margins(top[i].id) :
                         IsNumber(margins(top[i].id)[k].margin)
                  /\ top[i].profit = SumOver(margins(top[i].id), "margin")

\* C24: the per-client list has one entry per client id among the filtered sales, with
\* orders the number of that client's filtered sales, at least 1, revenue the sum of
\* their finalAmount and avgOrder = revenue / orders; it is ordered by revenue,
\* non-increasing, and keeps the ten best
C24_ClientPurchases ==
    metricsCall.fn = "analytics" =>
        LET kept == InPeriod(metricsCall.sales)
            ids == {kept[i].clientId : i \in DOMAIN kept}
            top == analyticsData.topClients
            bought(id) == SelectSeq(kept, LAMBDA sl : sl.clientId = id)
        IN /\ Len(top) = Least(10, Cardinality(ids))
           /\ \A i, j \in DOMAIN top : top[i].id = top[j].id => i = j
           /\ \A i, j \in DOMAIN top : i < j => top[i].revenue >= top[j].revenue
           /\ \A id \in ids \ {top[i].id : i \in DOMAIN top} :
                  \A i \in DOMAIN top : SumOver(bought(id), "finalAmount") <= top[i].revenue
           /\ \A i \in DOMAIN top :
                  /\ top[i].id \in ids
                  /\ top[i].orders = Len(bought(top[i].id))
                  /\ top[i].orders >= 1
                  /\ top[i].revenue = SumOver(bought(top[i].id), "finalAmount")
                  /\ IsNumber(top[i].avgOrder.num)
                  /\ top[i].avgOrder.num * top[i].orders = top[i].revenue * top[i].avgOrder.den

\* eleven clients have bought in the period, one of them more than once, and a sale
\* older than the period is in the list
C24_Witness ==
    /\ metricsCall.fn = "analytics"
    /\ Len(analyticsData.topClients) = 10
    /\ Cardinality({InPeriod(metricsCall.sales)[i].clientId :
                       i \in DOMAIN InPeriod(metricsCall.sales)}) > 10
    /\ \E i \in DOMAIN analyticsData.topClients :
           /\ analyticsData.topClients[i].orders > 1
           /\ analyticsData.topClients[i].avgOrder.den > 1
    /\ Len(InPeriod(metricsCall.sales)) < Len(metricsCall.sales)

\* C29: the Active Clients figure is the number of distinct clients with at least one
\* sale inside the selected period, however many they are
C29_ActiveClients ==
    metricsCall.fn = "analytics" =>
        analyticsCards(analyticsData).activeClients
            = Cardinality({InPeriod(metricsCall.sales)[i].clientId :
                              i \in DOMAIN InPeriod(metricsCall.sales)})

\* C25: the monthly trend has exactly one entry per calendar year and month in which a
\* filtered sale was created, the entries are in strictly ascending label order, which
\* is the order of time, their revenues add up to totalRevenue and their order counts
\* to the number of filtered sales
C25_MonthlyTrends ==
    metricsCall.fn = "analytics" =>
        LET kept == InPeriod(metricsCall.sales)
            trends == analyticsData.monthlyTrends
            year(t) == t \div YearLength
            month(t) == Cardinality({m \in 1..11 : DaysBefore(m) * Day <= t % YearLength})
            label(t) == year(t) * 100 + month(t) + 1
            during(l) == SelectSeq(kept, LAMBDA sl : label(sl.createdAt) = l)
        IN /\ {trends[i].month : i \in DOMAIN trends}
                  = {label(kept[j].createdAt) : j \in DOMAIN kept}
           /\ \A i, j \in DOMAIN trends : i < j => trends[i].month < trends[j].month
           /\ \A i, j \in DOMAIN trends :
                  i < j => \A a \in DOMAIN during(trends[i].month),
                              b \in DOMAIN during(trends[j].month) :
                               during(trends[i].month)[a].createdAt
                                   < during(trends[j].month)[b].createdAt
           /\ \A i \in DOMAIN trends :
                  /\ trends[i].orders = Len(during(trends[i].month))
                  /\ trends[i].revenue = SumOver(during(trends[i].month), "finalAmount")
           /\ SumOver(trends, "revenue") = analyticsData.totalRevenue
           /\ analyticsData.totalRevenue = SumOver(kept, "finalAmount")
           /\ SumOver(trends, "orders") = Len(kept)

\* a year's period: sales of the same month of two years, and two sales in one month
C25_Witness ==
    /\ metricsCall.fn = "analytics"
    /\ Len(analyticsData.monthlyTrends) = 2
    /\ analyticsData.monthlyTrends[1].month + 100 = analyticsData.monthlyTrends[2].month
    /\ analyticsData.monthlyTrends[2].orders > 1
    /\ metricsCall.sales[1].createdAt > metricsCall.sales[2].createdAt
    /\ Len(InPeriod(metricsCall.sales)) < Len(metricsCall.sales)

\* a step in which a boundary call failed
FailedStep == budget'.faults + budget'.refused > budget.faults + budget.refused

\* what a failed operation must leave behind: the boundary's error as the rejection,
\* a message in the error state, the collections and the store as they were, and one
\* failed call, none issued again
FailedCleanly(s, service) ==
    /\ rejection'[s] = Raised(service)
    /\ error'[s] \notin {NoError, ""}
    /\ products' = products /\ clients' = clients /\ sales' = sales
    /\ dbProducts' = dbProducts /\ dbClients' = dbClients
    /\ dbSales' = dbSales /\ dbSaleItems' = dbSaleItems /\ nextId' = nextId
    /\ budget'.faults + budget'.refused = budget.faults + budget.refused + 1
    /\ budget'.ops = budget.ops + 1

\* C26: when the boundary call of addProduct, updateProduct, deleteProduct, addClient,
\* updateClient or deleteClient fails, the operation rejects with the error the
\* boundary raised, records an error message, leaves the in-memory products, clients
\* and sales unchanged, and issues no retry
C26_FailureLeavesCollections ==
    [][\A s \in Sessions :
           /\ ((\E d \in NewProducts : addProduct(s, d)) /\ FailedStep)
                  => (FailedCleanly(s, "productService.create")
                      /\ error'[s] = "Failed to add product")
           /\ ((\E id \in Ids(products[s]), u \in ProductEdits : updateProduct(s, id, u))
               /\ FailedStep)
                  => (FailedCleanly(s, "productService.update")
                      /\ error'[s] = "Failed to update product")
           /\ ((\E id \in Ids(products[s]) : deleteProduct(s, id)) /\ FailedStep)
                  => (FailedCleanly(s, "productService.delete")
                      /\ error'[s] = "Failed to delete product")
           /\ ((\E name \in {"a"} : addClient(s, ClientFormData(name))) /\ FailedStep)
                  => (FailedCleanly(s, "clientService.create")
                      /\ error'[s] = "Failed to add client")
           /\ ((\E id \in Ids(clients[s]), u \in ClientEdits : updateClient(s, id, u))
               /\ FailedStep)
                  => (FailedCleanly(s, "clientService.update")
                      /\ error'[s] = "Failed to update client")
           /\ ((\E id \in Ids(clients[s]) : deleteClient(s, id)) /\ FailedStep)
                  => (FailedCleanly(s, "clientService.delete")
                      /\ error'[s] = "Failed to delete client")]_vars

\* a delete has failed in a session that holds products, clients and a sale
C26_Witness ==
    \E s \in active :
        /\ rejection[s] = Raised("productService.delete")
        /\ error[s] = "Failed to delete product"
        /\ products[s] # <<>>
        /\ clients[s] # <<>>
        /\ sales[s] # <<>>
        /\ \A i \in DOMAIN products[s] : \E r \in dbProducts : r.id = products[s][i].id

\* C28: once an operation has failed and set the error state, the error stays non-null
\* through every later operation, successful or not; only loadAllData sets it back to
\* null, and while it is non-null the app shows the error screen in place of any page
C28_ErrorStays ==
    [][\A s \in Sessions :
           /\ (error[s] # NoError /\ error'[s] = NoError) =>
                  (loadAllData(s) /\ ~ FailedStep)
           /\ (error[s] = NoError /\ error'[s] # NoError) => FailedStep
           /\ error'[s] # NoError => renderCurrentPage(s)' = "error"
           /\ error'[s] = NoError => renderCurrentPage(s)' = "page"]_vars

\* a delete failed, the same delete then succeeded, and the error is still there
C28_Witness ==
    \E s \in active :
        /\ error[s] = "Failed to delete product"
        /\ rejection[s] = NoRejection
        /\ pc[s] = "idle"
        /\ products[s] = <<>>
        /\ nextId.products = 1
        /\ dbProducts = {}
        /\ renderCurrentPage(s) = "error"

\* the in-memory entities are the rows of the table, each once, value for value
Mirrors(list, rows, Map(_)) ==
    /\ {list[i].id : i \in DOMAIN list} = {r.id : r \in rows}
    /\ \A i, j \in DOMAIN list : list[i].id = list[j].id => i = j
    /\ \A i \in DOMAIN list : \E r \in rows : r.id = list[i].id /\ list[i] = Map(r)

\* a step that completes one of the seven operations successfully
Completes(s) ==
    \/ /\ pc[s] = "idle" /\ pc'[s] = "idle"
       /\ budget'.ops = budget.ops + 1
       /\ ~ FailedStep
       /\ ~ loadAllData(s)
    \/ pc[s] # "resolved" /\ pc'[s] = "resolved"

\* C27: in a single session with no other writer, after every successfully completed
\* addProduct, updateProduct, deleteProduct, addClient, updateClient, deleteClient or
\* addSale the in-memory products and clients are exactly the store's product and
\* client rows, with equal field values
C27_MemoryMirrorsStore ==
    [][\A s \in active :
           Completes(s) =>
               /\ Mirrors(products[s], dbProducts, mapDbToProduct)'
               /\ Mirrors(clients[s], dbClients, mapDbToClient)']_vars

\* C30: every sale handleSubmit passes to addSale has finalAmount >= 0, the discount
\* never above the items' total, and every item's quantity at least 1
C30_SubmittedSaleNotNegative ==
    submitted.clientId # 0 =>
        /\ IsNumber(submitted.finalAmount) =>
               /\ submitted.finalAmount >= 0
               /\ submitted.discount <= submitted.totalAmount
        /\ \A i \in DOMAIN submitted.items : submitted.items[i].quantity >= 1

\* the half of C30 about quantities
SubmittedQuantitiesPositive ==
    submitted.clientId # 0 =>
        \A i \in DOMAIN submitted.items : submitted.items[i].quantity >= 1

====
